---- MODULE Spec2Model ----
(***************************************************************************)
(* Inheritree: an in-memory B+-like tree with a copy-on-write overlay.     *)
(* Nodes live in a heap (a sequence; a node's identity is its index), so   *)
(* that sharing between a base tree and a derived tree is by reference as  *)
(* in the source.  Array indices are 0-based as in the source; At0 and     *)
(* Splice convert to the 1-based sequences of TLA+.                         *)
(***************************************************************************)
EXTENDS Integers, Sequences, FiniteSets, TLC

VARIABLES
    heap,       \* the nodes, by identity
    root,       \* _root of each tree (NoNode when undefined)
    version,    \* _version of each tree
    base,       \* base of each tree (NoNode when undefined)
    keySpace,   \* the keys the caller draws its arguments from
    cursor,     \* a path the caller holds on to, with the tree it came from
    op,         \* the last call made and what it returned
    calls,      \* number of mutating calls made since the seed
    used,       \* the names of those calls
    shadow      \* per tree, the entries a reference map would hold

vars == <<heap, root, version, base, keySpace, cursor, op, calls, used, shadow>>

(***************************************************************************)
(* Bounds                                                                  *)
(***************************************************************************)
\* Node capacity, scaled down from the source's 64 (b-tree.ts:6).
NodeCapacity == 4

\* Largest number of mutating calls explored after the seed.
MaxCalls == 2

\* The trees: 1 is the base tree B, 2 the tree D constructed over B.
B == 1
D == 2
Trees == {B, D}

\* JS undefined (a missing entry, a missing node, no path)
Undefined == <<>>
NoNode == 0

\* const x = value; rest: a local of the code, computed once
Let(value, rest(_)) == rest(value)

(***************************************************************************)
(* Arrays                                                                  *)
(***************************************************************************)
At0(s, i) == IF i >= 0 /\ i < Len(s) THEN s[i + 1] ELSE Undefined

\* Array.prototype.splice(start, deleteCount, ...items), 0 <= start
Splice(s, start, deleteCount, items) ==
    LET st == IF start > Len(s) THEN Len(s) ELSE start
        en == IF st + deleteCount > Len(s) THEN Len(s) ELSE st + deleteCount
    IN SubSeq(s, 1, st) \o items \o SubSeq(s, en + 1, Len(s))

Take(s, n) == SubSeq(s, 1, n)
Drop(s, n) == SubSeq(s, n + 1, Len(s))

(***************************************************************************)
(* Nodes (nodes.ts), paths (path.ts)                                       *)
(***************************************************************************)
LeafNode(entries, tree) ==
    [leaf |-> TRUE, entries |-> entries, partitions |-> <<>>, nodes |-> <<>>, tree |-> tree]

BranchNode(partitions, nodes, tree) ==
    [leaf |-> FALSE, entries |-> <<>>, partitions |-> partitions, nodes |-> nodes, tree |-> tree]

\* LeafNode.clone / BranchNode.clone: same contents, new owner
CloneNode(node, newTree) == [node EXCEPT !.tree = newTree]

PathBranch(node, index) == [node |-> node, index |-> index]

Path(branches, leafNode, leafIndex, on, ver) ==
    [branches |-> branches, leafNode |-> leafNode, leafIndex |-> leafIndex,
     on |-> on, version |-> ver]

\* Path.isEqual
isEqual(p, q) ==
    /\ p.leafNode = q.leafNode
    /\ p.leafIndex = q.leafIndex
    /\ p.on = q.on
    /\ p.version = q.version

MapGet(map, n) == IF n \in DOMAIN map THEN map[n] ELSE n

\* Path.remap
RECURSIVE RemapBranches(_, _)
RemapBranches(branches, map) ==
    IF branches = <<>> THEN <<>>
    ELSE <<PathBranch(MapGet(map, Head(branches).node), Head(branches).index)>>
         \o RemapBranches(Tail(branches), map)

remap(p, map) ==
    Path(RemapBranches(p.branches, map), MapGet(map, p.leafNode), p.leafIndex, p.on, p.version)

EmptyMap == [n \in {} |-> NoNode]

(***************************************************************************)
(* The world an operation runs in: the heap and the fields of every tree,  *)
(* plus the set of nodes the running operation has written to.             *)
(***************************************************************************)
World == [heap |-> heap, root |-> root, version |-> version, base |-> base, writes |-> {}]

WorldNext == [heap |-> heap', root |-> root', version |-> version', base |-> base', writes |-> {}]

Alloc(w, node) == [w EXCEPT !.heap = Append(@, node)]
NewId(w) == Len(w.heap) + 1

\* an assignment to a node's entries, partitions or nodes
WriteNode(w, id, node) ==
    [w EXCEPT !.heap[id] = node, !.writes = @ \cup {id}]

\* entries are <<key, data>>; the tests' extractor is entry.id
keyFromEntry(entry) == entry[1]

\* the default comparator
compare(a, b) == IF a < b THEN -1 ELSE IF a > b THEN 1 ELSE 0

compareKeys(a, b) == compare(a, b)

\* get root(): the local root, else the base's, else a fresh empty leaf
RECURSIVE EnsureRoot(_, _)
EnsureRoot(w, t) ==
    IF w.root[t] # NoNode THEN w
    ELSE IF w.base[t] # NoNode THEN EnsureRoot(w, w.base[t])
    ELSE [Alloc(w, LeafNode(<<>>, t)) EXCEPT !.root[t] = NewId(w)]

RECURSIVE RootOf(_, _)
RootOf(w, t) ==
    IF w.root[t] # NoNode THEN w.root[t]
    ELSE IF w.base[t] # NoNode THEN RootOf(w, w.base[t])
    ELSE NoNode

\* clearBase that forgets the base without taking over its root
clearBase_Forgets(w, t) == [w EXCEPT !.base[t] = NoNode]

\* clearBase
clearBase(w, t) ==
    IF w.root[t] # NoNode THEN [w EXCEPT !.base[t] = NoNode]
    ELSE IF w.base[t] = NoNode THEN w
    ELSE LET w1 == EnsureRoot(w, w.base[t])
         IN [w1 EXCEPT !.root[t] = RootOf(w1, w.base[t]), !.base[t] = NoNode]

(***************************************************************************)
(* Search                                                                  *)
(***************************************************************************)
RECURSIVE SearchEntries(_, _, _, _)
SearchEntries(entries, key, lo, hi) ==
    IF lo > hi THEN [on |-> FALSE, index |-> lo]
    ELSE LET split == (lo + hi) \div 2
             result == compareKeys(key, keyFromEntry(entries[split + 1]))
         IN IF result = 0 THEN [on |-> TRUE, index |-> split]
            ELSE IF result < 0 THEN SearchEntries(entries, key, lo, split - 1)
            ELSE SearchEntries(entries, key, split + 1, hi)

indexOfEntry(entries, key) == SearchEntries(entries, key, 0, Len(entries) - 1)

RECURSIVE SearchKeys(_, _, _, _)
SearchKeys(keys, key, lo, hi) ==
    IF lo > hi THEN lo
    ELSE LET split == (lo + hi) \div 2
             result == compareKeys(key, keys[split + 1])
         IN IF result = 0 THEN split + 1
            ELSE IF result < 0 THEN SearchKeys(keys, key, lo, split - 1)
            ELSE SearchKeys(keys, key, split + 1, hi)

indexOfKey(keys, key) == SearchKeys(keys, key, 0, Len(keys) - 1)

RECURSIVE getPath(_, _, _, _)
getPath(w, t, node, key) ==
    LET n == w.heap[node]
    IN IF n.leaf
       THEN LET r == indexOfEntry(n.entries, key)
            IN Path(<<>>, node, r.index, r.on, w.version[t])
       ELSE LET index == indexOfKey(n.partitions, key)
                path == getPath(w, t, n.nodes[index + 1], key)
            IN [path EXCEPT !.branches = <<PathBranch(node, index)>> \o @]

RECURSIVE getFirst(_, _, _)
getFirst(w, t, node) ==
    LET n == w.heap[node]
    IN IF n.leaf
       THEN Path(<<>>, node, 0, Len(n.entries) > 0, w.version[t])
       ELSE LET path == getFirst(w, t, n.nodes[1])
            IN [path EXCEPT !.branches = <<PathBranch(node, 0)>> \o @]

RECURSIVE getLast(_, _, _)
getLast(w, t, node) ==
    LET n == w.heap[node]
    IN IF n.leaf
       THEN LET count == Len(n.entries)
            IN Path(<<>>, node, IF count > 0 THEN count - 1 ELSE 0, count > 0, w.version[t])
       ELSE LET index == Len(n.nodes) - 1
                path == getLast(w, t, n.nodes[index + 1])
            IN [path EXCEPT !.branches = <<PathBranch(node, index)>> \o @]

\* find, first, last: the root getter may materialise the root, so each
\* returns the world along with the path
\* find that counts as a mutation
find_Bumps(w, t, key) ==
    LET w1 == EnsureRoot(w, t)
    IN [w |-> [w1 EXCEPT !.version[t] = @ + 1], p |-> getPath(w1, t, RootOf(w1, t), key)]

find(w, t, key) ==
    LET w1 == EnsureRoot(w, t) IN [w |-> w1, p |-> getPath(w1, t, RootOf(w1, t), key)]

first(w, t) ==
    LET w1 == EnsureRoot(w, t) IN [w |-> w1, p |-> getFirst(w1, t, RootOf(w1, t))]

last(w, t) ==
    LET w1 == EnsureRoot(w, t) IN [w |-> w1, p |-> getLast(w1, t, RootOf(w1, t))]

isValid(w, t, path) == path.version = w.version[t]

\* at, past validatePath
atPath(w, path) ==
    IF path.on THEN At0(w.heap[path.leafNode].entries, path.leafIndex) ELSE Undefined

get(w, t, key) == LET f == find(w, t, key) IN atPath(f.w, f.p)

(***************************************************************************)
(* Navigation                                                              *)
(***************************************************************************)
RECURSIVE moveToFirst(_, _, _)
moveToFirst(w, node, path) ==
    LET n == w.heap[node]
    IN IF n.leaf
       THEN [path EXCEPT !.leafNode = node, !.leafIndex = 0, !.on = Len(n.entries) > 0]
       ELSE moveToFirst(w, n.nodes[1],
                        [path EXCEPT !.branches = Append(@, PathBranch(node, 0))])

RECURSIVE moveToLast(_, _, _)
moveToLast(w, node, path) ==
    LET n == w.heap[node]
    IN IF n.leaf
       THEN LET count == Len(n.entries)
            IN [path EXCEPT !.leafNode = node, !.on = count > 0,
                            !.leafIndex = IF count > 0 THEN count - 1 ELSE 0]
       ELSE moveToLast(w, n.nodes[Len(n.partitions) + 1],
                       [path EXCEPT !.branches = Append(@, PathBranch(node, Len(n.partitions)))])

\* number of trailing branches of the path that sit on their last child
RECURSIVE PopCountNext(_, _, _)
PopCountNext(w, path, popCount) ==
    LET lastSeg == Len(path.branches) - 1
    IN IF popCount <= lastSeg
       THEN LET branch == path.branches[lastSeg - popCount + 1]
            IN IF branch.index = Len(w.heap[branch.node].partitions)
               THEN PopCountNext(w, path, popCount + 1)
               ELSE [popCount |-> popCount, found |-> TRUE]
       ELSE [popCount |-> popCount, found |-> FALSE]

\* internalNext that never moves off a crack
internalNext_StaysOff(w, path) ==
    IF ~path.on
    THEN path
    ELSE IF path.leafIndex >= Len(w.heap[path.leafNode].entries) - 1
    THEN LET pc == PopCountNext(w, path, 0)
         IN IF ~pc.found
            THEN [path EXCEPT !.leafIndex = Len(w.heap[path.leafNode].entries), !.on = FALSE]
            ELSE LET kept == Len(path.branches) - pc.popCount
                     branch == path.branches[kept]
                     p1 == [path EXCEPT !.branches =
                               Append(Take(@, kept - 1), PathBranch(branch.node, branch.index + 1))]
                 IN moveToFirst(w, w.heap[branch.node].nodes[branch.index + 2], p1)
    ELSE [path EXCEPT !.leafIndex = @ + 1, !.on = TRUE]

internalNext(w, path) ==
    IF ~path.on
    THEN LET on == /\ \A i \in 1..Len(path.branches) :
                         /\ path.branches[i].index >= 0
                         /\ path.branches[i].index < Len(w.heap[path.branches[i].node].nodes)
                   /\ path.leafIndex >= 0
                   /\ path.leafIndex < Len(w.heap[path.leafNode].entries)
         IN [path EXCEPT !.on = on]
    ELSE IF path.leafIndex >= Len(w.heap[path.leafNode].entries) - 1
    THEN LET pc == PopCountNext(w, path, 0)
         IN IF ~pc.found
            THEN [path EXCEPT !.leafIndex = Len(w.heap[path.leafNode].entries), !.on = FALSE]
            ELSE LET kept == Len(path.branches) - pc.popCount
                     branch == path.branches[kept]
                     p1 == [path EXCEPT !.branches =
                               Append(Take(@, kept - 1), PathBranch(branch.node, branch.index + 1))]
                 IN moveToFirst(w, w.heap[branch.node].nodes[branch.index + 2], p1)
    ELSE [path EXCEPT !.leafIndex = @ + 1, !.on = TRUE]

RECURSIVE PopCountPrior(_, _)
PopCountPrior(path, popCount) ==
    LET lastSeg == Len(path.branches) - 1
    IN IF popCount <= lastSeg
       THEN IF path.branches[lastSeg - popCount + 1].index = 0
            THEN PopCountPrior(path, popCount + 1)
            ELSE [popCount |-> popCount, opening |-> TRUE]
       ELSE [popCount |-> popCount, opening |-> FALSE]

\* internalPrior, past its validatePath
\* internalPrior that never leaves the leaf it is in
internalPrior_WithinLeaf(w, path) ==
    IF path.leafIndex <= 0 THEN [path EXCEPT !.leafIndex = 0, !.on = FALSE]
    ELSE [path EXCEPT !.leafIndex = @ - 1, !.on = TRUE]

internalPrior(w, path) ==
    IF path.leafIndex <= 0
    THEN LET pc == PopCountPrior(path, 0)
         IN IF ~pc.opening
            THEN [path EXCEPT !.leafIndex = 0, !.on = FALSE]
            ELSE LET kept == Len(path.branches) - pc.popCount
                     branch == path.branches[kept]
                     p1 == [path EXCEPT !.branches =
                               Append(Take(@, kept - 1), PathBranch(branch.node, branch.index - 1))]
                 IN moveToLast(w, w.heap[branch.node].nodes[branch.index], p1)
    ELSE [path EXCEPT !.leafIndex = @ - 1, !.on = TRUE]

(***************************************************************************)
(* Copy-on-write engine                                                    *)
(***************************************************************************)
\* walks the segments bottom-up from segment i (1-based) to the top
RECURSIVE replaceRootward(_, _, _, _, _, _)
replaceRootward(w, t, prior, segments, i, map) ==
    IF i = 0 THEN [w |-> [w EXCEPT !.root[t] = prior], map |-> map]
    ELSE LET seg == segments[i]
         IN IF w.heap[seg.node].tree = t THEN [w |-> w, map |-> map]
            ELSE LET clone == CloneNode(w.heap[seg.node], t)
                     newBranch == IF prior # NoNode
                                  THEN [clone EXCEPT !.nodes[seg.index + 1] = prior]
                                  ELSE clone
                 IN replaceRootward(Alloc(w, newBranch), t, NewId(w), segments, i - 1,
                                    (seg.node :> NewId(w)) @@ map)

\* mutableLeaf without the copy: the leaf is handed out whoever owns it
CowLeaf_NoClone(w, t, path) ==
    [w |-> w, map |-> EmptyMap, node |-> path.leafNode]

\* the clone-or-not decision of mutableLeaf; the caller remaps its path
CowLeaf(w, t, path) ==
    IF w.base[t] # NoNode /\ w.heap[path.leafNode].tree # t
    THEN Let(replaceRootward(Alloc(w, CloneNode(w.heap[path.leafNode], t)), t, NewId(w),
                             path.branches, Len(path.branches), (path.leafNode :> NewId(w))),
             LAMBDA r : [w |-> r.w, map |-> r.map, node |-> NewId(w)])
    ELSE [w |-> w, map |-> EmptyMap, node |-> path.leafNode]

\* mutableLeaf(path): the path itself is remapped
mutableLeaf(w, t, path) ==
    Let(CowLeaf(w, t, path),
        LAMBDA c : [w |-> c.w, p |-> remap(path, c.map), node |-> c.node])

\* mutableLeaf(path, mainPath): a sibling's path is cloned, mainPath is remapped
mutableLeafSib(w, t, path, mainPath) ==
    Let(CowLeaf(w, t, path),
        LAMBDA c : [w |-> c.w, p |-> remap(mainPath, c.map), node |-> c.node])

\* mutableBranch(segments, mainPath?)
mutableBranch(w, t, segments, mainPath, hasMain) ==
    Let(replaceRootward(w, t, NoNode, segments, Len(segments), EmptyMap),
        LAMBDA r : [w |-> r.w,
                    p |-> IF hasMain THEN remap(mainPath, r.map) ELSE mainPath,
                    node |-> MapGet(r.map, segments[Len(segments)].node)])

leafSibPath(path, sib, delta) ==
    Path(path.branches, sib, path.leafIndex + delta, path.on, path.version)

(***************************************************************************)
(* Insert                                                                  *)
(***************************************************************************)
Split(key, right, indexDelta) ==
    [some |-> TRUE, key |-> key, right |-> right, indexDelta |-> indexDelta]

NoSplit == [some |-> FALSE, key |-> 0, right |-> NoNode, indexDelta |-> 0]

\* leafInsert that leaves the path on the old leaf when the entry goes to the new one
leafInsert_PathStays(w, t, path, entry) ==
    Let(mutableLeaf(w, t, path), LAMBDA m :
    LET index == path.leafIndex
        leaf == m.w.heap[m.node]
    IN IF Len(leaf.entries) < NodeCapacity
       THEN [w |-> WriteNode(m.w, m.node, [leaf EXCEPT !.entries = Splice(@, index, 0, <<entry>>)]),
             p |-> m.p, split |-> NoSplit]
       ELSE LET midIndex == (Len(leaf.entries) + 1) \div 2
                kept == Take(leaf.entries, midIndex)
                moveEntries == Drop(leaf.entries, midIndex)
                newLeaf == NewId(m.w)
                delta == IF index < midIndex THEN 0 ELSE 1
                newIndex == m.p.leafIndex - Len(kept)
                rightEntries == IF delta = 1 THEN Splice(moveEntries, newIndex, 0, <<entry>>)
                                ELSE moveEntries
                leftEntries == IF delta = 1 THEN kept ELSE Splice(kept, index, 0, <<entry>>)
                w1 == WriteNode(m.w, m.node, [leaf EXCEPT !.entries = leftEntries])
                w2 == Alloc(w1, LeafNode(rightEntries, t))
                p1 == m.p
            IN [w |-> w2, p |-> p1,
                split |-> Split(keyFromEntry(rightEntries[1]), newLeaf, delta)])

\* leafInsert that splits a full leaf behind its last entry
leafInsert_SplitsAtEnd(w, t, path, entry) ==
    Let(mutableLeaf(w, t, path), LAMBDA m :
    LET index == path.leafIndex
        leaf == m.w.heap[m.node]
    IN IF Len(leaf.entries) < NodeCapacity
       THEN [w |-> WriteNode(m.w, m.node, [leaf EXCEPT !.entries = Splice(@, index, 0, <<entry>>)]),
             p |-> m.p, split |-> NoSplit]
       ELSE LET midIndex == Len(leaf.entries)
                kept == Take(leaf.entries, midIndex)
                moveEntries == Drop(leaf.entries, midIndex)
                newLeaf == NewId(m.w)
                delta == IF index < midIndex THEN 0 ELSE 1
                newIndex == m.p.leafIndex - Len(kept)
                rightEntries == IF delta = 1 THEN Splice(moveEntries, newIndex, 0, <<entry>>)
                                ELSE moveEntries
                leftEntries == IF delta = 1 THEN kept ELSE Splice(kept, index, 0, <<entry>>)
                w1 == WriteNode(m.w, m.node, [leaf EXCEPT !.entries = leftEntries])
                w2 == Alloc(w1, LeafNode(rightEntries, t))
                p1 == IF delta = 1
                      THEN [m.p EXCEPT !.leafNode = newLeaf, !.leafIndex = newIndex]
                      ELSE m.p
            IN [w |-> w2, p |-> p1,
                split |-> Split(keyFromEntry(rightEntries[1]), newLeaf, delta)])

leafInsert(w, t, path, entry) ==
    Let(mutableLeaf(w, t, path), LAMBDA m :
    LET index == path.leafIndex
        leaf == m.w.heap[m.node]
    IN IF Len(leaf.entries) < NodeCapacity
       THEN [w |-> WriteNode(m.w, m.node, [leaf EXCEPT !.entries = Splice(@, index, 0, <<entry>>)]),
             p |-> m.p, split |-> NoSplit]
       ELSE LET midIndex == (Len(leaf.entries) + 1) \div 2
                kept == Take(leaf.entries, midIndex)
                moveEntries == Drop(leaf.entries, midIndex)
                newLeaf == NewId(m.w)
                delta == IF index < midIndex THEN 0 ELSE 1
                newIndex == m.p.leafIndex - Len(kept)
                rightEntries == IF delta = 1 THEN Splice(moveEntries, newIndex, 0, <<entry>>)
                                ELSE moveEntries
                leftEntries == IF delta = 1 THEN kept ELSE Splice(kept, index, 0, <<entry>>)
                w1 == WriteNode(m.w, m.node, [leaf EXCEPT !.entries = leftEntries])
                w2 == Alloc(w1, LeafNode(rightEntries, t))
                p1 == IF delta = 1
                      THEN [m.p EXCEPT !.leafNode = newLeaf, !.leafIndex = newIndex]
                      ELSE m.p
            IN [w |-> w2, p |-> p1,
                split |-> Split(keyFromEntry(rightEntries[1]), newLeaf, delta)])

branchInsert(w, t, path, branchIndex, split) ==
    Let([path EXCEPT !.branches[branchIndex + 1].index = @ + split.indexDelta], LAMBDA p0 :
    Let(mutableBranch(w, t, Take(p0.branches, branchIndex + 1), p0, TRUE), LAMBDA m :
    LET index == path.branches[branchIndex + 1].index
        mutable == m.w.heap[m.node]
        partitions == Splice(mutable.partitions, index, 0, <<split.key>>)
        nodes == Splice(mutable.nodes, index + 1, 0, <<split.right>>)
    IN IF Len(nodes) <= NodeCapacity
       THEN [w |-> WriteNode(m.w, m.node,
                             [mutable EXCEPT !.partitions = partitions, !.nodes = nodes]),
             p |-> m.p, split |-> NoSplit]
       ELSE LET midIndex == Len(nodes) \div 2
                movePartitions == Drop(partitions, midIndex)
                newPartition == partitions[midIndex]
                moveNodes == Drop(nodes, midIndex)
                w1 == WriteNode(m.w, m.node,
                                [mutable EXCEPT !.partitions = Take(partitions, midIndex - 1),
                                                !.nodes = Take(nodes, midIndex)])
                newBranch == NewId(w1)
                w2 == Alloc(w1, BranchNode(movePartitions, moveNodes, t))
                pbIndex == m.p.branches[branchIndex + 1].index
                delta == IF pbIndex < midIndex THEN 0 ELSE 1
                p1 == IF delta = 1
                      THEN [m.p EXCEPT !.branches[branchIndex + 1] =
                                          PathBranch(newBranch, pbIndex - midIndex)]
                      ELSE m.p
            IN [w |-> w2, p |-> p1, split |-> Split(newPartition, newBranch, delta)]))

\* the while loop of internalInsertAt
RECURSIVE InsertUp(_, _, _, _, _)
InsertUp(w, t, path, branchIndex, split) ==
    IF split.some /\ branchIndex >= 0
    THEN Let(branchInsert(w, t, path, branchIndex, split),
             LAMBDA b : InsertUp(b.w, t, b.p, branchIndex - 1, b.split))
    ELSE [w |-> w, p |-> path, split |-> split]

\* internalInsertAt that hands a split leaf to the branch above its parent
internalInsertAt_SkipsParent(w, t, path, entry) ==
    Let(leafInsert(w, t, path, entry), LAMBDA l :
    Let(InsertUp(l.w, t, l.p, Len(l.p.branches) - 2, l.split), LAMBDA r :
    IF r.split.some
    THEN LET newBranch == NewId(r.w)
             w1 == Alloc(r.w, BranchNode(<<r.split.key>>, <<RootOf(r.w, t), r.split.right>>, t))
         IN [w |-> [w1 EXCEPT !.root[t] = newBranch],
             p |-> [r.p EXCEPT !.branches = <<PathBranch(newBranch, r.split.indexDelta)>> \o @]]
    ELSE [w |-> r.w, p |-> r.p]))

internalInsertAt(w, t, path, entry) ==
    Let(leafInsert(w, t, path, entry), LAMBDA l :
    Let(InsertUp(l.w, t, l.p, Len(l.p.branches) - 1, l.split), LAMBDA r :
    IF r.split.some
    THEN LET newBranch == NewId(r.w)
             w1 == Alloc(r.w, BranchNode(<<r.split.key>>, <<RootOf(r.w, t), r.split.right>>, t))
         IN [w |-> [w1 EXCEPT !.root[t] = newBranch],
             p |-> [r.p EXCEPT !.branches = <<PathBranch(newBranch, r.split.indexDelta)>> \o @]]
    ELSE [w |-> r.w, p |-> r.p]))

internalInsert(w, t, entry) ==
    Let(find(w, t, keyFromEntry(entry)), LAMBDA f :
    IF f.p.on
    THEN [w |-> f.w, p |-> [f.p EXCEPT !.on = FALSE]]
    ELSE Let(internalInsertAt(f.w, t, f.p, entry),
             LAMBDA i : [w |-> i.w, p |-> [i.p EXCEPT !.on = TRUE]]))

\* ++this._version, stamped into the path
Bump(w, t, path) ==
    [w |-> [w EXCEPT !.version[t] = @ + 1], p |-> [path EXCEPT !.version = w.version[t] + 1]]

insert(w, t, entry) ==
    Let(internalInsert(w, t, entry),
        LAMBDA i : IF i.p.on THEN Bump(i.w, t, i.p) ELSE i)

(***************************************************************************)
(* Delete and rebalance                                                    *)
(***************************************************************************)
Half == NodeCapacity \div 2

\* array[i] = v, which appends when i is the length
SetAt0(s, i, v) == IF i = Len(s) THEN Append(s, v) ELSE [s EXCEPT ![i + 1] = v]

\* array[i] of a node list, NoNode when out of range
NodeAt0(s, i) == IF i >= 0 /\ i < Len(s) THEN s[i + 1] ELSE NoNode

LastOf(s) == s[Len(s)]
Front(s) == SubSeq(s, 1, Len(s) - 1)

RECURSIVE updatePartition(_, _, _, _, _, _)
updatePartition(w, t, nodeIndex, path, depth, newKey) ==
    IF nodeIndex > 0
    THEN Let(mutableBranch(w, t, Take(path.branches, depth + 1), path, TRUE), LAMBDA m :
             [w |-> WriteNode(m.w, m.node,
                      [m.w.heap[m.node] EXCEPT !.partitions = SetAt0(@, nodeIndex - 1, newKey)]),
              p |-> m.p])
    ELSE IF depth # 0
    THEN updatePartition(w, t, path.branches[depth].index, path, depth - 1, newKey)
    ELSE [w |-> w, p |-> path]

RECURSIVE rebalanceBranch(_, _, _, _)
rebalanceBranch(w, t, path, depth) ==
    LET pathBranch == path.branches[depth + 1]
        branch == pathBranch.node
    IN IF depth = 0 /\ Len(w.heap[branch].partitions) = 0
       THEN [w |-> w, p |-> path,
             newRoot |-> IF Len(path.branches) > depth + 1
                         THEN path.branches[depth + 2].node ELSE path.leafNode]
       ELSE IF depth = 0 \/ Len(w.heap[branch].nodes) >= NodeCapacity * 2
       THEN [w |-> w, p |-> path, newRoot |-> NoNode]
       ELSE
       LET parent == path.branches[depth]
           pIndex == parent.index
           pNode == parent.node
           rightSib == NodeAt0(w.heap[pNode].nodes, pIndex + 1)
           leftSib == NodeAt0(w.heap[pNode].nodes, pIndex - 1)
       IN IF rightSib # NoNode /\ Len(w.heap[rightSib].nodes) > Half
          THEN \* borrow from right sibling
            Let(mutableBranch(w, t, Append(Take(path.branches, depth),
                                           PathBranch(rightSib, pIndex + 1)), path, TRUE), LAMBDA rm :
            Let(mutableBranch(rm.w, t, Take(rm.p.branches, depth + 1), rm.p, TRUE), LAMBDA bm :
            LET w1 == WriteNode(bm.w, bm.node,
                        [bm.w.heap[bm.node] EXCEPT
                            !.partitions = Append(@, bm.w.heap[pNode].partitions[pIndex + 1])])
                node == Head(w1.heap[rm.node].nodes)
                w2 == WriteNode(w1, rm.node, [w1.heap[rm.node] EXCEPT !.nodes = Tail(@)])
                w3 == WriteNode(w2, bm.node, [w2.heap[bm.node] EXCEPT !.nodes = Append(@, node)])
                rightKey == Head(w3.heap[rm.node].partitions)
                w4 == WriteNode(w3, rm.node, [w3.heap[rm.node] EXCEPT !.partitions = Tail(@)])
            IN Let(updatePartition(w4, t, pIndex + 1, bm.p, depth - 1, rightKey),
                   LAMBDA u : [w |-> u.w, p |-> u.p, newRoot |-> NoNode])))
          ELSE IF leftSib # NoNode /\ Len(w.heap[leftSib].nodes) > Half
          THEN \* borrow from left sibling
            Let(mutableBranch(w, t, Append(Take(path.branches, depth),
                                           PathBranch(leftSib, pIndex - 1)), path, TRUE), LAMBDA lm :
            Let(mutableBranch(lm.w, t, Take(lm.p.branches, depth + 1), lm.p, TRUE), LAMBDA bm :
            LET w1 == WriteNode(bm.w, bm.node,
                        [bm.w.heap[bm.node] EXCEPT
                            !.partitions = <<bm.w.heap[pNode].partitions[pIndex]>> \o @])
                node == LastOf(w1.heap[lm.node].nodes)
                w2 == WriteNode(w1, lm.node, [w1.heap[lm.node] EXCEPT !.nodes = Front(@)])
                w3 == WriteNode(w2, bm.node, [w2.heap[bm.node] EXCEPT !.nodes = <<node>> \o @])
                pKey == LastOf(w3.heap[lm.node].partitions)
                w4 == WriteNode(w3, lm.node, [w3.heap[lm.node] EXCEPT !.partitions = Front(@)])
                p1 == [bm.p EXCEPT !.branches[depth + 1].index = @ + 1]
            IN Let(updatePartition(w4, t, pIndex, p1, depth - 1, pKey),
                   LAMBDA u : [w |-> u.w, p |-> u.p, newRoot |-> NoNode])))
          ELSE IF rightSib # NoNode
                  /\ Len(w.heap[rightSib].nodes) + Len(w.heap[branch].nodes) <= NodeCapacity
          THEN \* merge right sibling into self
            Let(mutableBranch(w, t, Take(path.branches, depth), path, TRUE), LAMBDA pm :
            Let(mutableBranch(pm.w, t, Take(pm.p.branches, depth + 1), pm.p, TRUE), LAMBDA bm :
            LET pKey == bm.w.heap[pm.node].partitions[pIndex + 1]
                w1 == WriteNode(bm.w, pm.node,
                        [bm.w.heap[pm.node] EXCEPT !.partitions = Splice(@, pIndex, 1, <<>>)])
                w2 == WriteNode(w1, bm.node,
                        [w1.heap[bm.node] EXCEPT
                            !.partitions = Append(@, pKey) \o w1.heap[rightSib].partitions])
                w3 == WriteNode(w2, bm.node,
                        [w2.heap[bm.node] EXCEPT !.nodes = @ \o w2.heap[rightSib].nodes])
                w4 == WriteNode(w3, pm.node,
                        [w3.heap[pm.node] EXCEPT !.nodes = Splice(@, pIndex + 1, 1, <<>>)])
            IN Let(IF pIndex = 0 /\ Len(w4.heap[pm.node].partitions) > 0
                   THEN updatePartition(w4, t, pIndex, bm.p, depth - 1,
                                        w4.heap[pm.node].partitions[1])
                   ELSE [w |-> w4, p |-> bm.p],
                   LAMBDA u : rebalanceBranch(u.w, t, u.p, depth - 1))))
          ELSE IF leftSib # NoNode
                  /\ Len(w.heap[leftSib].nodes) + Len(w.heap[branch].nodes) <= NodeCapacity
          THEN \* merge self into left sibling
            Let(mutableBranch(w, t, Take(path.branches, depth), path, TRUE), LAMBDA pm :
            Let(mutableBranch(pm.w, t, Append(Take(pm.p.branches, depth),
                                              PathBranch(leftSib, pIndex - 1)), pm.p, TRUE), LAMBDA lm :
            LET p1 == [lm.p EXCEPT !.branches[depth + 1] =
                          PathBranch(lm.node, @.index + Len(lm.w.heap[lm.node].nodes))]
                pKey == lm.w.heap[pm.node].partitions[pIndex]
                w1 == WriteNode(lm.w, pm.node,
                        [lm.w.heap[pm.node] EXCEPT !.partitions = Splice(@, pIndex - 1, 1, <<>>)])
                w2 == WriteNode(w1, lm.node,
                        [w1.heap[lm.node] EXCEPT
                            !.partitions = Append(@, pKey) \o w1.heap[branch].partitions])
                w3 == WriteNode(w2, lm.node,
                        [w2.heap[lm.node] EXCEPT !.nodes = @ \o w2.heap[branch].nodes])
                w4 == WriteNode(w3, pm.node,
                        [w3.heap[pm.node] EXCEPT !.nodes = Splice(@, pIndex, 1, <<>>)])
            IN rebalanceBranch(w4, t, p1, depth - 1)))
          ELSE [w |-> w, p |-> path, newRoot |-> NoNode]

\* rebalanceLeaf that leaves an under-filled leaf as it is
rebalanceLeaf_Never(w, t, path) ==
    [w |-> w, p |-> path, newRoot |-> NoNode]

rebalanceLeaf(w, t, path) ==
    IF Len(w.heap[path.leafNode].entries) >= Half
    THEN [w |-> w, p |-> path, newRoot |-> NoNode]
    ELSE
    LET leaf == path.leafNode
        parent == LastOf(path.branches)
        depth == Len(path.branches) - 1
        pIndex == parent.index
        pNode == parent.node
        rightSib == NodeAt0(w.heap[pNode].nodes, pIndex + 1)
        leftSib == NodeAt0(w.heap[pNode].nodes, pIndex - 1)
    IN IF rightSib # NoNode /\ Len(w.heap[rightSib].entries) > Half
       THEN \* borrow from right sibling
         Let(mutableLeafSib(w, t, leafSibPath(path, rightSib, 1), path), LAMBDA rm :
         Let(mutableLeaf(rm.w, t, rm.p), LAMBDA lm :
         LET entry == Head(lm.w.heap[rm.node].entries)
             w1 == WriteNode(lm.w, rm.node, [lm.w.heap[rm.node] EXCEPT !.entries = Tail(@)])
             w2 == WriteNode(w1, lm.node, [w1.heap[lm.node] EXCEPT !.entries = Append(@, entry)])
         IN Let(updatePartition(w2, t, pIndex + 1, lm.p, depth,
                                keyFromEntry(At0(w2.heap[rm.node].entries, 0))),
                LAMBDA u : [w |-> u.w, p |-> u.p, newRoot |-> NoNode])))
       ELSE IF leftSib # NoNode /\ Len(w.heap[leftSib].entries) > Half
       THEN \* borrow from left sibling
         Let(mutableLeafSib(w, t, leafSibPath(path, leftSib, -1), path), LAMBDA sm :
         Let(mutableLeaf(sm.w, t, sm.p), LAMBDA lm :
         LET entry == LastOf(lm.w.heap[sm.node].entries)
             w1 == WriteNode(lm.w, sm.node, [lm.w.heap[sm.node] EXCEPT !.entries = Front(@)])
             w2 == WriteNode(w1, lm.node, [w1.heap[lm.node] EXCEPT !.entries = <<entry>> \o @])
         IN Let(updatePartition(w2, t, pIndex, lm.p, depth, keyFromEntry(entry)),
                LAMBDA u : [w |-> u.w, p |-> [u.p EXCEPT !.leafIndex = @ + 1],
                            newRoot |-> NoNode])))
       ELSE IF rightSib # NoNode
               /\ Len(w.heap[rightSib].entries) + Len(w.heap[leaf].entries) <= NodeCapacity
       THEN \* merge right sibling into leaf
         Let(mutableLeaf(w, t, path), LAMBDA lm :
         Let(mutableBranch(lm.w, t, lm.p.branches, lm.p, FALSE), LAMBDA pm :
         LET w1 == WriteNode(pm.w, lm.node,
                     [pm.w.heap[lm.node] EXCEPT !.entries = @ \o pm.w.heap[rightSib].entries])
             w2 == WriteNode(w1, pm.node,
                     [w1.heap[pm.node] EXCEPT !.partitions = Splice(@, pIndex, 1, <<>>)])
             w3 == WriteNode(w2, pm.node,
                     [w2.heap[pm.node] EXCEPT !.nodes = Splice(@, pIndex + 1, 1, <<>>)])
         IN Let(IF pIndex = 0
                THEN updatePartition(w3, t, pIndex, pm.p, depth,
                                     keyFromEntry(At0(w3.heap[lm.node].entries, 0)))
                ELSE [w |-> w3, p |-> pm.p],
                LAMBDA u : rebalanceBranch(u.w, t, u.p, depth))))
       ELSE IF leftSib # NoNode
               /\ Len(w.heap[leftSib].entries) + Len(w.heap[leaf].entries) <= NodeCapacity
       THEN \* merge leaf into left sibling
         Let(mutableLeafSib(w, t, leafSibPath(path, leftSib, -1), path), LAMBDA sm :
         Let(mutableBranch(sm.w, t, sm.p.branches, sm.p, FALSE), LAMBDA pm :
         LET p1 == [pm.p EXCEPT !.leafNode = leftSib,
                                !.leafIndex = @ + Len(pm.w.heap[leftSib].entries)]
             w1 == WriteNode(pm.w, sm.node,
                     [pm.w.heap[sm.node] EXCEPT !.entries = @ \o pm.w.heap[leaf].entries])
             w2 == WriteNode(w1, pm.node,
                     [w1.heap[pm.node] EXCEPT !.partitions = Splice(@, pIndex - 1, 1, <<>>)])
             w3 == WriteNode(w2, pm.node,
                     [w2.heap[pm.node] EXCEPT !.nodes = Splice(@, pIndex, 1, <<>>)])
         IN rebalanceBranch(w3, t, p1, depth)))
       ELSE [w |-> w, p |-> path, newRoot |-> NoNode]

\* internalDelete that leaves the root where it was
internalDelete_RootStays(w, t, path) ==
    IF path.on
    THEN Let(mutableLeaf(w, t, path), LAMBDA m :
         Let(WriteNode(m.w, m.node,
                [m.w.heap[m.node] EXCEPT !.entries = Splice(@, m.p.leafIndex, 1, <<>>)]), LAMBDA w1 :
         IF Len(m.p.branches) > 0
         THEN Let(IF m.p.leafIndex = 0
                  THEN updatePartition(w1, t, LastOf(m.p.branches).index, m.p,
                          Len(m.p.branches) - 1,
                          keyFromEntry(At0(w1.heap[m.p.leafNode].entries, m.p.leafIndex)))
                  ELSE [w |-> w1, p |-> m.p], LAMBDA u :
              Let(rebalanceLeaf(u.w, t, u.p), LAMBDA r :
                  [w |-> r.w,
                   p |-> [r.p EXCEPT !.on = FALSE], result |-> TRUE]))
         ELSE [w |-> w1, p |-> [m.p EXCEPT !.on = FALSE], result |-> TRUE]))
    ELSE [w |-> w, p |-> path, result |-> FALSE]

internalDelete(w, t, path) ==
    IF path.on
    THEN Let(mutableLeaf(w, t, path), LAMBDA m :
         Let(WriteNode(m.w, m.node,
                [m.w.heap[m.node] EXCEPT !.entries = Splice(@, m.p.leafIndex, 1, <<>>)]), LAMBDA w1 :
         IF Len(m.p.branches) > 0
         THEN Let(IF m.p.leafIndex = 0
                  THEN updatePartition(w1, t, LastOf(m.p.branches).index, m.p,
                          Len(m.p.branches) - 1,
                          keyFromEntry(At0(w1.heap[m.p.leafNode].entries, m.p.leafIndex)))
                  ELSE [w |-> w1, p |-> m.p], LAMBDA u :
              Let(rebalanceLeaf(u.w, t, u.p), LAMBDA r :
                  [w |-> IF r.newRoot # NoNode THEN [r.w EXCEPT !.root[t] = r.newRoot] ELSE r.w,
                   p |-> [r.p EXCEPT !.on = FALSE], result |-> TRUE]))
         ELSE [w |-> w1, p |-> [m.p EXCEPT !.on = FALSE], result |-> TRUE]))
    ELSE [w |-> w, p |-> path, result |-> FALSE]

(***************************************************************************)
(* Update, upsert, merge, delete                                           *)
(***************************************************************************)
InvalidPath == "Path is invalid due to mutation of the tree"
NoError == "none"

internalUpdate(w, t, path, newEntry) ==
    IF path.on
    THEN LET oldKey == keyFromEntry(At0(w.heap[path.leafNode].entries, path.leafIndex))
             newKey == keyFromEntry(newEntry)
         IN IF compareKeys(oldKey, newKey) # 0
            THEN Let(internalInsert(w, t, newEntry), LAMBDA i :
                 IF i.p.on
                 THEN Let(find(i.w, t, oldKey), LAMBDA f1 :
                      Let(internalDelete(f1.w, t, f1.p), LAMBDA d :
                      Let(find(d.w, t, newKey), LAMBDA f2 :
                          [w |-> f2.w, p |-> f2.p, wasUpdate |-> FALSE])))
                 ELSE [w |-> i.w, p |-> i.p, wasUpdate |-> FALSE])
            ELSE Let(mutableLeaf(w, t, path), LAMBDA m :
                 [w |-> WriteNode(m.w, m.node,
                          [m.w.heap[m.node] EXCEPT !.entries = SetAt0(@, m.p.leafIndex, newEntry)]),
                  p |-> m.p, wasUpdate |-> TRUE])
    ELSE [w |-> w, p |-> path, wasUpdate |-> TRUE]

\* updateAt without its validatePath
updateAt_Unchecked(w, t, path, newEntry) ==
    Let(internalUpdate(w, t, path, newEntry), LAMBDA r :
    Let(IF r.p.on THEN Bump(r.w, t, r.p) ELSE [w |-> r.w, p |-> r.p], LAMBDA b :
        [w |-> b.w, p |-> b.p, wasUpdate |-> r.wasUpdate, err |-> NoError]))

updateAt(w, t, path, newEntry) ==
    IF ~isValid(w, t, path)
    THEN [w |-> w, p |-> path, wasUpdate |-> FALSE, err |-> InvalidPath]
    ELSE Let(internalUpdate(w, t, path, newEntry), LAMBDA r :
         Let(IF r.p.on THEN Bump(r.w, t, r.p) ELSE [w |-> r.w, p |-> r.p], LAMBDA b :
             [w |-> b.w, p |-> b.p, wasUpdate |-> r.wasUpdate, err |-> NoError]))

\* upsert that takes the insert branch whether or not the key was found
upsert_AlwaysInserts(w, t, entry) ==
    Let(find(w, t, keyFromEntry(entry)), LAMBDA f :
    Let(internalInsertAt(f.w, t, f.p, entry), LAMBDA i : Bump(i.w, t, i.p)))

upsert(w, t, entry) ==
    Let(find(w, t, keyFromEntry(entry)), LAMBDA f :
    IF f.p.on
    THEN Let(mutableLeaf(f.w, t, f.p), LAMBDA m :
             Bump(WriteNode(m.w, m.node,
                     [m.w.heap[m.node] EXCEPT !.entries = SetAt0(@, m.p.leafIndex, entry)]),
                  t, m.p))
    ELSE Let(internalInsertAt(f.w, t, f.p, entry), LAMBDA i : Bump(i.w, t, i.p)))

\* the getUpdated callbacks: replace the data, or move the entry to another key
getUpdated(updater, existing) ==
    IF updater.kind = "data" THEN <<keyFromEntry(existing), updater.data>>
    ELSE <<updater.key, existing[2]>>

merge(w, t, newEntry, updater) ==
    Let(find(w, t, keyFromEntry(newEntry)), LAMBDA f :
    IF f.p.on
    THEN Let(updateAt(f.w, t, f.p,
                getUpdated(updater, At0(f.w.heap[f.p.leafNode].entries, f.p.leafIndex))),
             LAMBDA result :
         Let(IF result.p.on THEN Bump(result.w, t, result.p)
             ELSE [w |-> result.w, p |-> result.p], LAMBDA b :
             [w |-> b.w, p |-> b.p, wasUpdate |-> result.wasUpdate, err |-> result.err]))
    ELSE Let(internalInsertAt(f.w, t, f.p, newEntry), LAMBDA i :
         Let(Bump(i.w, t, [i.p EXCEPT !.on = TRUE]), LAMBDA b :
             [w |-> b.w, p |-> b.p, wasUpdate |-> FALSE, err |-> NoError])))

\* deleteAt without its validatePath
deleteAt_Unchecked(w, t, path) ==
    Let(internalDelete(w, t, path), LAMBDA d :
        [w |-> IF d.result THEN [d.w EXCEPT !.version[t] = @ + 1] ELSE d.w,
         p |-> d.p, result |-> d.result, err |-> NoError])

deleteAt(w, t, path) ==
    IF ~isValid(w, t, path)
    THEN [w |-> w, p |-> path, result |-> FALSE, err |-> InvalidPath]
    ELSE Let(internalDelete(w, t, path), LAMBDA d :
             [w |-> IF d.result THEN [d.w EXCEPT !.version[t] = @ + 1] ELSE d.w,
              p |-> d.p, result |-> d.result, err |-> NoError])

(***************************************************************************)
(* Reading a whole tree: getAllEntries of the tests, first() then          *)
(* ascending() and at()                                                    *)
(***************************************************************************)
RECURSIVE AscendFrom(_, _, _)
AscendFrom(w, path, acc) ==
    IF path.on
    THEN AscendFrom(w, internalNext(w, path), Append(acc, atPath(w, path)))
    ELSE acc

getAllEntries(w, t) ==
    IF RootOf(w, t) = NoNode THEN <<>>
    ELSE AscendFrom(w, getFirst(w, t, RootOf(w, t)), <<>>)

(***************************************************************************)
(* Reference map (the shadowMap of the stress test)                        *)
(***************************************************************************)
KeysOf(entries) == {keyFromEntry(e) : e \in entries}

EntryOf(entries, k) == CHOOSE e \in entries : keyFromEntry(e) = k

MapInsert(entries, e) ==
    IF keyFromEntry(e) \in KeysOf(entries) THEN entries ELSE entries \cup {e}

MapPut(entries, e) ==
    {x \in entries : keyFromEntry(x) # keyFromEntry(e)} \cup {e}

MapDelete(entries, k) == {x \in entries : keyFromEntry(x) # k}

\* update of the entry stored under k to e, which may carry another key
MapUpdate(entries, k, e) ==
    IF k \notin KeysOf(entries) THEN entries
    ELSE IF keyFromEntry(e) = k THEN MapPut(entries, e)
    ELSE IF keyFromEntry(e) \in KeysOf(entries) THEN entries
    ELSE MapDelete(entries, k) \cup {e}

MapMerge(entries, e, updater) ==
    IF keyFromEntry(e) \in KeysOf(entries)
    THEN MapUpdate(entries, keyFromEntry(e),
                   getUpdated(updater, EntryOf(entries, keyFromEntry(e))))
    ELSE entries \cup {e}

\* the entries of a set, sorted by key
RECURSIVE SortedEntries(_)
SortedEntries(entries) ==
    IF entries = {} THEN <<>>
    ELSE LET m == CHOOSE e \in entries : \A x \in entries : keyFromEntry(e) <= keyFromEntry(x)
         IN <<m>> \o SortedEntries(entries \ {m})

(***************************************************************************)
(* Workloads: a tree is seeded by inserting a key sequence into an empty   *)
(* tree; the calls that follow draw their keys from the workload's key set *)
(***************************************************************************)
SeedData == 0
NewData == 1
MergedData == 2

EmptyWorld ==
    [heap |-> <<>>, root |-> <<NoNode, NoNode>>, version |-> <<0, 0>>,
     base |-> <<NoNode, NoNode>>, writes |-> {}]

RECURSIVE Seeded(_, _, _)
Seeded(w, t, seed) ==
    IF seed = <<>> THEN w
    ELSE Let(insert(w, t, <<Head(seed), SeedData>>).w, LAMBDA w1 :
             IF Len(w1.heap) > 0 THEN Seeded([w1 EXCEPT !.writes = {}], t, Tail(seed)) ELSE w1)

Evens(n) == [i \in 1..n |-> 2 * i]
Downs(n) == [i \in 1..n |-> 2 * (n + 1 - i)]

Workload(seed, ks) == [seed |-> seed, keys |-> ks]

\* standalone trees: empty, one leaf (full or not), a branch over leaves
\* (filled from the left or from the right), two and three branch levels
TreeWorkloads ==
    { Workload(<<>>, {2, 4}),
      Workload(Evens(NodeCapacity), {1, 5, 9}),
      Workload(Evens(NodeCapacity + 1), {2, 3, 8}),
      Workload(Downs(NodeCapacity + 1), {3, 8, 10}),
      Workload(Evens(2 * NodeCapacity + 2), {12, 15, 21}),
      Workload(Downs(2 * NodeCapacity + 2), {1, 5, 20}),
      Workload(Evens(3 * NodeCapacity), {2, 10, 17}),
      Workload(Evens(6 * NodeCapacity - 1), {18, 25, 28}) }

\* base trees for a derived tree: empty, one leaf, a full leaf, a branch
\* over leaves with a fuller right or left sibling, two branch levels
CowWorkloads ==
    { Workload(<<>>, {2, 4}),
      Workload(Evens(NodeCapacity - 1), {4, 5}),
      Workload(Evens(NodeCapacity), {4, 9}),
      Workload(Evens(NodeCapacity + 1), {2, 8}),
      Workload(Evens(NodeCapacity + 1), {3, 7}),
      Workload(Downs(NodeCapacity + 1), {5, 10}),
      Workload(Evens(2 * NodeCapacity), {2, 7}),
      Workload(Evens(3 * NodeCapacity), {2, 13}) }

(***************************************************************************)
(* The calls                                                               *)
(***************************************************************************)
NoPath == Path(<<>>, NoNode, 0, FALSE, -1)
NoCursor == [tree |-> NoNode, path |-> NoPath]
NoEntry == <<0, 0>>

Call(name, t, key, entry, path, wasUpdate, result, err, w) ==
    [name |-> name, tree |-> t, key |-> key, entry |-> entry, path |-> path,
     wasUpdate |-> wasUpdate, result |-> result, err |-> err, writes |-> w.writes,
     before |-> version[t], held |-> FALSE]

NoCall == [name |-> "new", tree |-> NoNode, key |-> 0, entry |-> NoEntry, path |-> NoPath,
           wasUpdate |-> FALSE, result |-> FALSE, err |-> NoError, writes |-> {}, before |-> 0,
           held |-> FALSE]

Commit(w) ==
    /\ heap' = w.heap
    /\ root' = w.root
    /\ version' = w.version
    /\ base' = w.base

Counted(name) ==
    /\ calls' = calls + 1
    /\ used' = used \cup {name}

Entries(ks) == {<<k, NewData>> : k \in ks}

Updaters(ks) == {[kind |-> "data", data |-> MergedData, key |-> 0]}
                \cup {[kind |-> "key", data |-> 0, key |-> k] : k \in ks}

Insert(t, entry) ==
    /\ calls < MaxCalls
    /\ \E r \in {insert(World, t, entry)} :
          /\ Commit(r.w)
          /\ op' = Call("insert", t, keyFromEntry(entry), entry, r.p, FALSE, r.p.on, NoError, r.w)
    /\ shadow' = [shadow EXCEPT ![t] = MapInsert(@, entry)]
    /\ Counted("insert")
    /\ UNCHANGED <<keySpace, cursor>>

\* updateAt(find(key), entry)
UpdateAt(t, key, entry) ==
    /\ calls < MaxCalls
    /\ \E f \in {find(World, t, key)} : \E r \in {updateAt(f.w, t, f.p, entry)} :
          /\ Commit(r.w)
          /\ op' = Call("updateAt", t, key, entry, r.p, r.wasUpdate, r.p.on, r.err, r.w)
    /\ shadow' = [shadow EXCEPT ![t] = MapUpdate(@, key, entry)]
    /\ Counted("updateAt")
    /\ UNCHANGED <<keySpace, cursor>>

Upsert(t, entry) ==
    /\ calls < MaxCalls
    /\ \E r \in {upsert(World, t, entry)} :
          /\ Commit(r.w)
          /\ op' = Call("upsert", t, keyFromEntry(entry), entry, r.p, FALSE, r.p.on, NoError, r.w)
    /\ shadow' = [shadow EXCEPT ![t] = MapPut(@, entry)]
    /\ Counted("upsert")
    /\ UNCHANGED <<keySpace, cursor>>

Merge(t, entry, updater) ==
    /\ calls < MaxCalls
    /\ \E r \in {merge(World, t, entry, updater)} :
          /\ Commit(r.w)
          /\ op' = Call("merge", t, keyFromEntry(entry), entry, r.p, r.wasUpdate, r.p.on, r.err, r.w)
    /\ shadow' = [shadow EXCEPT ![t] = MapMerge(@, entry, updater)]
    /\ Counted("merge")
    /\ UNCHANGED <<keySpace, cursor>>

\* deleteAt(find(key))
DeleteAt(t, key) ==
    /\ calls < MaxCalls
    /\ \E f \in {find(World, t, key)} : \E r \in {deleteAt(f.w, t, f.p)} :
          /\ Commit(r.w)
          /\ op' = Call("deleteAt", t, key, NoEntry, r.p, FALSE, r.result, r.err, r.w)
    /\ shadow' = [shadow EXCEPT ![t] = MapDelete(@, key)]
    /\ Counted("deleteAt")
    /\ UNCHANGED <<keySpace, cursor>>

ClearBase(t) ==
    /\ base[t] # NoNode
    /\ \E w \in {clearBase(World, t)} :
          /\ Commit(w)
          /\ op' = Call("clearBase", t, 0, NoEntry, NoPath, FALSE, TRUE, NoError, w)
    /\ UNCHANGED <<keySpace, cursor, calls, used, shadow>>

Mutate(t) ==
    \/ \E e \in Entries(keySpace) : Insert(t, e)
    \/ \E k \in keySpace, e \in Entries(keySpace) : UpdateAt(t, k, e)
    \/ \E e \in Entries(keySpace) : Upsert(t, e)
    \/ \E e \in Entries(keySpace), u \in Updaters(keySpace) : Merge(t, e, u)
    \/ \E k \in keySpace : DeleteAt(t, k)

SeedEntries(seed) == {<<seed[i], SeedData>> : i \in 1..Len(seed)}

\* tree B after its seed; when derived, D = new BTree(keyFromEntry, compare, B)
InitWorld(workloads, derived) ==
    /\ \E wl \in workloads :
        \E w \in {Seeded(EmptyWorld, B, wl.seed)} :
           /\ heap = w.heap
           /\ root = w.root
           /\ version = w.version
           /\ base = [t \in Trees |-> IF t = D /\ derived THEN B ELSE NoNode]
           /\ keySpace = wl.keys
           /\ shadow = [t \in Trees |-> IF t = B \/ derived THEN SeedEntries(wl.seed) ELSE {}]
    /\ cursor = NoCursor
    /\ op = NoCall
    /\ calls = 0
    /\ used = {}

\* a base tree B and a tree D derived from it; B is left alone for as long
\* as D has it as its base
Init == InitWorld(CowWorkloads, TRUE)

Next ==
    \/ Mutate(D)
    \/ ClearBase(D)
    \/ (base[D] = NoNode /\ Mutate(B))

Spec == Init /\ [][Next]_vars

\* a standalone tree B; D is never constructed
InitTree == InitWorld(TreeWorkloads, FALSE)

NextTree == Mutate(B)

SpecTree == InitTree /\ [][NextTree]_vars

(***************************************************************************)
(* getCount                                                                *)
(***************************************************************************)
TypeError == "TypeError"

\* internalNext from the last entry of a leaf reads the branch's next child;
\* on a path the tree has moved away from there may be none, and moveToFirst
\* of undefined throws
NextChildMissing(w, path) ==
    /\ path.on
    /\ path.leafIndex >= Len(w.heap[path.leafNode].entries) - 1
    /\ LET pc == PopCountNext(w, path, 0)
           branch == path.branches[Len(path.branches) - pc.popCount]
       IN pc.found /\ branch.index + 2 > Len(w.heap[branch.node].nodes)

\* the ascending loop of getCount: no validatePath anywhere
RECURSIVE CountUp(_, _, _)
CountUp(w, path, result) ==
    IF ~path.on THEN [count |-> result, err |-> NoError]
    ELSE LET entries == w.heap[path.leafNode].entries
             p1 == [path EXCEPT !.leafIndex = Len(entries) - 1]
         IN IF NextChildMissing(w, p1) THEN [count |-> 0, err |-> TypeError]
            ELSE CountUp(w, internalNext(w, p1), result + Len(entries) - path.leafIndex)

\* the descending loop of getCount: the validatePath of internalPrior
\* (b-tree.ts:401) runs once a path that is on has been counted
RECURSIVE CountDown(_, _, _, _)
CountDown(w, t, path, result) ==
    IF ~path.on THEN [count |-> result, err |-> NoError]
    ELSE IF ~isValid(w, t, path) THEN [count |-> 0, err |-> InvalidPath]
    ELSE CountDown(w, t, internalPrior(w, [path EXCEPT !.leafIndex = 0]),
                   result + path.leafIndex + 1)

\* getCount({path, ascending}): counts on a clone of the path
\* getCount that counts ascending whatever it is asked
getCount_Ascending(w, t, path, isAscending) == CountUp(w, path, 0)

getCount(w, t, path, isAscending) ==
    IF isAscending THEN CountUp(w, path, 0) ELSE CountDown(w, t, path, 0)

(***************************************************************************)
(* A caller that holds on to one Path object of tree B                     *)
(***************************************************************************)
CursorWorkloads ==
    { Workload(Evens(2), {3}),
      Workload(Evens(NodeCapacity + 1), {4}),
      Workload(Evens(2 * NodeCapacity), {7}) }

Holding == cursor.tree = B

\* validatePath
validatePath(w, t, path) == IF isValid(w, t, path) THEN NoError ELSE InvalidPath

\* a call that only reads: nothing but the record of the call changes
Read(name, path, entry, result, err) ==
    /\ op' = [Call(name, B, 0, entry, path, FALSE, result, err, World) EXCEPT !.held = TRUE]
    /\ UNCHANGED <<heap, root, version, base, keySpace, calls, used, shadow>>

\* p = find(key), p = first(), p = last(): the one path the caller keeps
Obtain(name, key, f) ==
    /\ ~Holding
    /\ Commit(f.w)
    /\ cursor' = [tree |-> B, path |-> f.p]
    /\ op' = Call(name, B, key, NoEntry, f.p, FALSE, f.p.on, NoError, f.w)
    /\ UNCHANGED <<keySpace, calls, used, shadow>>

TakeFind(key) == Obtain("find", key, find(World, B, key))

TakeFirst == Obtain("first", 0, first(World, B))

TakeLast == Obtain("last", 0, last(World, B))

\* at(p)
At ==
    /\ Holding
    /\ LET err == validatePath(World, B, cursor.path)
           e == IF err = NoError THEN atPath(World, cursor.path) ELSE Undefined
       IN Read("at", cursor.path, IF e = Undefined THEN NoEntry ELSE e, e # Undefined, err)
    /\ UNCHANGED cursor

\* moveNext(p), movePrior(p): p itself moves
Move(name, moved) ==
    /\ Holding
    /\ LET err == validatePath(World, B, cursor.path)
           p1 == IF err = NoError THEN moved ELSE cursor.path
       IN /\ Read(name, p1, NoEntry, p1.on, err)
          /\ cursor' = [cursor EXCEPT !.path = p1]

MoveNext == Move("moveNext", internalNext(World, cursor.path))

MovePrior == Move("movePrior", internalPrior(World, cursor.path))

\* next(p), prior(p), ascending(p), descending(p): a clone of p is moved or
\* handed to the iterator, p stays
OnClone(name, moved) ==
    /\ Holding
    /\ LET err == validatePath(World, B, cursor.path)
           p1 == IF err = NoError THEN moved ELSE cursor.path
       IN Read(name, p1, NoEntry, p1.on, err)
    /\ UNCHANGED cursor

NextOf == OnClone("next", internalNext(World, cursor.path))

PriorOf == OnClone("prior", internalPrior(World, cursor.path))

Ascending == OnClone("ascending", cursor.path)

Descending == OnClone("descending", cursor.path)

\* getCount({path: p, ascending}): a clone of p walks the leaves, p stays
GetCount(isAscending) ==
    /\ Holding
    /\ \E r \in {getCount(World, B, cursor.path, isAscending)} :
          op' = [Call("getCount", B, r.count, NoEntry, cursor.path, FALSE, isAscending,
                      r.err, World) EXCEPT !.held = TRUE]
    /\ UNCHANGED <<heap, root, version, base, keySpace, calls, used, shadow, cursor>>

KeyAt(path) == keyFromEntry(atPath(World, path))

\* updateAt(p, entry): when the key stays, or p is off, the path returned
\* is p itself, restamped when the update went through
HeldUpdateAt(entry) ==
    /\ Holding
    /\ calls < MaxCalls
    /\ \E r \in {updateAt(World, B, cursor.path, entry)} :
       LET p == cursor.path
           live == r.err = NoError /\ p.on
       IN /\ Commit(r.w)
          /\ op' = [Call("updateAt", B, IF live THEN KeyAt(p) ELSE 0, entry, r.p,
                         r.wasUpdate, r.p.on, r.err, r.w) EXCEPT !.held = TRUE]
          /\ cursor' = IF r.err = NoError /\ r.wasUpdate
                       THEN [cursor EXCEPT !.path = r.p] ELSE cursor
          /\ shadow' = IF live THEN [shadow EXCEPT ![B] = MapUpdate(shadow[B], KeyAt(p), entry)]
                       ELSE shadow
    /\ Counted("updateAt")
    /\ UNCHANGED keySpace

\* deleteAt(p): p is taken off its entry
HeldDeleteAt ==
    /\ Holding
    /\ calls < MaxCalls
    /\ \E r \in {deleteAt(World, B, cursor.path)} :
       LET p == cursor.path
           live == r.err = NoError /\ p.on
       IN /\ Commit(r.w)
          /\ op' = [Call("deleteAt", B, IF live THEN KeyAt(p) ELSE 0, NoEntry, r.p,
                         FALSE, r.result, r.err, r.w) EXCEPT !.held = TRUE]
          /\ cursor' = IF r.err = NoError THEN [cursor EXCEPT !.path = r.p] ELSE cursor
          /\ shadow' = IF live THEN [shadow EXCEPT ![B] = MapDelete(shadow[B], KeyAt(p))]
                       ELSE shadow
    /\ Counted("deleteAt")
    /\ UNCHANGED keySpace

InitCursor == InitWorld(CursorWorkloads, FALSE)

NextCursor ==
    \/ \E k \in keySpace : TakeFind(k)
    \/ TakeFirst
    \/ TakeLast
    \/ At
    \/ MoveNext
    \/ MovePrior
    \/ NextOf
    \/ PriorOf
    \/ Ascending
    \/ Descending
    \/ \E isAscending \in BOOLEAN : GetCount(isAscending)
    \/ \E e \in Entries(keySpace) : HeldUpdateAt(e)
    \/ HeldDeleteAt
    \/ Mutate(B)

SpecCursor == InitCursor /\ [][NextCursor]_vars

(***************************************************************************)
(* merge with a getUpdated callback that itself calls the tree             *)
(***************************************************************************)
\* the calls a callback may make: insert, upsert, updateAt(find(key), entry),
\* deleteAt(find(key))
Mutations(ks) ==
    {[call |-> c, key |-> keyFromEntry(e), entry |-> e] : c \in {"insert", "upsert"}, e \in Entries(ks)}
    \cup {[call |-> "updateAt", key |-> k, entry |-> e] : k \in ks, e \in Entries(ks)}
    \cup {[call |-> "deleteAt", key |-> k, entry |-> NoEntry] : k \in ks}

\* the tree after the callback's call
ApplyMutation(w, t, m) ==
    IF m.call = "insert" THEN insert(w, t, m.entry).w
    ELSE IF m.call = "upsert" THEN upsert(w, t, m.entry).w
    ELSE IF m.call = "updateAt"
    THEN Let(find(w, t, m.key), LAMBDA f : updateAt(f.w, t, f.p, m.entry).w)
    ELSE Let(find(w, t, m.key), LAMBDA f : deleteAt(f.w, t, f.p).w)

\* the same call on the reference map
MapApply(entries, m) ==
    IF m.call = "insert" THEN MapInsert(entries, m.entry)
    ELSE IF m.call = "upsert" THEN MapPut(entries, m.entry)
    ELSE IF m.call = "updateAt" THEN MapUpdate(entries, m.key, m.entry)
    ELSE MapDelete(entries, m.key)

\* merge(newEntry, getUpdated) where getUpdated makes the call m before it
\* returns the updater's entry; an error of updateAt leaves merge at once
mergeWith(w, t, newEntry, updater, m) ==
    Let(find(w, t, keyFromEntry(newEntry)), LAMBDA f :
    IF f.p.on
    THEN Let(ApplyMutation(f.w, t, m), LAMBDA w1 :
         Let(updateAt(w1, t, f.p,
                getUpdated(updater, At0(f.w.heap[f.p.leafNode].entries, f.p.leafIndex))),
             LAMBDA result :
         IF result.err # NoError
         THEN [w |-> w1, p |-> f.p, wasUpdate |-> FALSE, err |-> result.err, called |-> TRUE]
         ELSE Let(IF result.p.on THEN Bump(result.w, t, result.p)
                  ELSE [w |-> result.w, p |-> result.p], LAMBDA b :
                  [w |-> b.w, p |-> b.p, wasUpdate |-> result.wasUpdate, err |-> NoError,
                   called |-> TRUE])))
    ELSE Let(internalInsertAt(f.w, t, f.p, newEntry), LAMBDA i :
         Let(Bump(i.w, t, [i.p EXCEPT !.on = TRUE]), LAMBDA b :
             [w |-> b.w, p |-> b.p, wasUpdate |-> FALSE, err |-> NoError, called |-> FALSE])))

MergeWith(t, entry, updater, m) ==
    /\ calls < MaxCalls
    /\ \E r \in {mergeWith(World, t, entry, updater, m)} :
          /\ Commit(r.w)
          /\ op' = [callback |-> m, called |-> r.called]
                   @@ Call("merge", t, keyFromEntry(entry), entry, r.p, r.wasUpdate, r.p.on,
                           r.err, r.w)
          /\ shadow' = [shadow EXCEPT ![t] =
                IF ~r.called THEN MapMerge(@, entry, updater)
                ELSE IF r.err # NoError THEN MapApply(@, m)
                ELSE MapMerge(MapApply(@, m), entry, updater)]
    /\ Counted("merge")
    /\ UNCHANGED <<keySpace, cursor>>

MergeWorkloads ==
    { Workload(Evens(2), {3}),
      Workload(Evens(NodeCapacity + 1), {4, 5}),
      Workload(Evens(2 * NodeCapacity), {7, 8}) }

InitMerge == InitWorld(MergeWorkloads, FALSE)

NextMerge ==
    \/ Mutate(B)
    \/ \E e \in Entries(keySpace), u \in Updaters(keySpace), m \in Mutations(keySpace) :
          MergeWith(B, e, u, m)

SpecMerge == InitMerge /\ [][NextMerge]_vars

(***************************************************************************)
(* Iteration: the generators ascending, descending and range.  A generator *)
(* is a record; iteratorNext is one call of its next()                     *)
(***************************************************************************)
\* KeyBound(key, inclusive), and the endpoint a range leaves out
KeyBound(key, inclusive) == [present |-> TRUE, key |-> key, inclusive |-> inclusive]

NoBound == [present |-> FALSE, key |-> 0, inclusive |-> FALSE]

\* KeyRange(first, last, isAscending)
KeyRange(firstBound, lastBound, isAscending) ==
    [first |-> firstBound, last |-> lastBound, isAscending |-> isAscending]

NoRange == KeyRange(NoBound, NoBound, TRUE)

\* findFirst: the path the range starts on
findFirst(w, t, r) ==
    Let(find(w, t, r.first.key), LAMBDA f :
        [w |-> f.w,
         p |-> IF ~f.p.on \/ ~r.first.inclusive
               THEN IF r.isAscending THEN internalNext(f.w, f.p) ELSE internalPrior(f.w, f.p)
               ELSE f.p])

\* findLast: the path the range ends on
findLast(w, t, r) ==
    Let(find(w, t, r.last.key), LAMBDA f :
        [w |-> f.w,
         p |-> IF ~f.p.on \/ ~r.last.inclusive
               THEN IF r.isAscending THEN internalPrior(f.w, f.p) ELSE internalNext(f.w, f.p)
               ELSE f.p])

\* a generator before its first next(): the path it will move and yield, and
\* for range the range it was given; endOn and endKey are range's locals
\* endPath.on and endKey, set when its body starts.  History, not state of
\* the code: mutated, a committed mutation since the generator last returned;
\* others, one that was not an updateAt of the yielded path keeping its key
Iterator(t, kind, path, r) ==
    [tree |-> t, kind |-> kind, path |-> path, range |-> r, state |-> "created",
     endOn |-> FALSE, endKey |-> 0, mutated |-> FALSE, others |-> FALSE]

\* ascending(path): validates at the call, iterates over a clone
ascending(w, t, path) ==
    IF ~isValid(w, t, path) THEN [it |-> NoCursor, err |-> InvalidPath]
    ELSE [it |-> Iterator(t, "ascending", path, NoRange), err |-> NoError]

\* descending(path)
descending(w, t, path) ==
    IF ~isValid(w, t, path) THEN [it |-> NoCursor, err |-> InvalidPath]
    ELSE [it |-> Iterator(t, "descending", path, NoRange), err |-> NoError]

\* range(range): nothing runs before the first next()
range(t, r) == Iterator(t, "range", NoPath, r)

Forward(it) == it.kind = "ascending" \/ (it.kind = "range" /\ it.range.isAscending)

\* internalAscending, internalDescending from their first line to the first
\* loop test: validatePath(path); while (path.on) yield path
internalEnter(w, it) ==
    IF ~isValid(w, it.tree, it.path) THEN [it EXCEPT !.state = "failed"]
    ELSE [it EXCEPT !.state = IF it.path.on THEN "yielded" ELSE "done"]

\* internalResume without the validatePath of moveNext and movePrior
internalResume_Unchecked(w, it) ==
    Let(IF Forward(it) THEN internalNext(w, it.path) ELSE internalPrior(w, it.path),
        LAMBDA p : [it EXCEPT !.path = p, !.state = IF p.on THEN "yielded" ELSE "done"])

\* internalAscending, internalDescending resumed after a yield: moveNext(path)
\* or movePrior(path), which validate, then the loop test
internalResume(w, it) ==
    IF ~isValid(w, it.tree, it.path) THEN [it EXCEPT !.state = "failed"]
    ELSE Let(IF Forward(it) THEN internalNext(w, it.path) ELSE internalPrior(w, it.path),
             LAMBDA p : [it EXCEPT !.path = p, !.state = IF p.on THEN "yielded" ELSE "done"])

\* the body of range's for loop on a path the inner generator yielded: break,
\* or yield it on
rangeTest(w, it) ==
    IF it.state # "yielded" THEN it
    ELSE IF \/ ~it.path.on
            \/ ~it.endOn
            \/ compareKeys(keyFromEntry(atPath(w, it.path)), it.endKey)
                 * (IF it.range.isAscending THEN 1 ELSE -1) > 0
         THEN [it EXCEPT !.state = "done"]
         ELSE it

\* range from its first line to its first yield.  endKey is read at
\* endPath.leafIndex whether or not endPath is on; at the end of a leaf there
\* is no entry and the key is never compared
rangeEnter(w, t, it) ==
    Let(IF it.range.first.present THEN findFirst(w, t, it.range)
        ELSE IF it.range.isAscending THEN first(w, t) ELSE last(w, t), LAMBDA s :
    Let(IF it.range.last.present THEN findLast(s.w, t, it.range)
        ELSE IF it.range.isAscending THEN last(s.w, t) ELSE first(s.w, t), LAMBDA e :
    Let(At0(e.w.heap[e.p.leafNode].entries, e.p.leafIndex), LAMBDA endEntry :
        [w |-> e.w,
         it |-> rangeTest(e.w, internalEnter(e.w,
                    [it EXCEPT !.path = s.p,
                               !.endOn = e.p.on,
                               !.endKey = IF endEntry = Undefined THEN 0
                                          ELSE keyFromEntry(endEntry)]))])))

\* one next() of a generator that has neither finished nor thrown
iteratorNext(w, it) ==
    IF it.kind = "range"
    THEN IF it.state = "created" THEN rangeEnter(w, it.tree, it)
         ELSE [w |-> w, it |-> rangeTest(w, internalResume(w, it))]
    ELSE [w |-> w, it |-> IF it.state = "created" THEN internalEnter(w, it)
                          ELSE internalResume(w, it)]

\* for (const path of generator): the entries under the paths yielded when
\* the caller leaves the tree alone
RECURSIVE Collect(_, _)
Collect(w, it) ==
    Let(iteratorNext(w, it), LAMBDA r :
        IF r.it.state = "yielded"
        THEN <<atPath(r.w, r.it.path)>> \o Collect(r.w, r.it)
        ELSE <<>>)

(***************************************************************************)
(* A caller that steps one generator of tree B and calls the tree between  *)
(* the steps                                                               *)
(***************************************************************************)
IterWorkloads ==
    { Workload(Evens(2), {3}),
      Workload(Evens(NodeCapacity + 1), {4}),
      Workload(Evens(2 * NodeCapacity), {8}) }

\* the endpoints a caller's range may have
IterBounds == {NoBound} \cup {KeyBound(k, i) : k \in keySpace, i \in BOOLEAN}

\* it = ascending(p), it = descending(p) with p = first(), last() or find(key)
Begin(name, f, r) ==
    /\ ~Holding
    /\ Commit(f.w)
    /\ cursor' = r.it
    /\ op' = Call(name, B, 0, NoEntry, f.p, FALSE, f.p.on, r.err, f.w)
    /\ UNCHANGED <<keySpace, calls, used, shadow>>

BeginAscending ==
    \E f \in {first(World, B)} \cup {find(World, B, k) : k \in keySpace} :
        Begin("ascending", f, ascending(f.w, B, f.p))

BeginDescending ==
    \E f \in {last(World, B)} \cup {find(World, B, k) : k \in keySpace} :
        Begin("descending", f, descending(f.w, B, f.p))

\* it = range(r)
BeginRange(r) ==
    /\ ~Holding
    /\ cursor' = range(B, r)
    /\ op' = Call("range", B, 0, NoEntry, NoPath, FALSE, FALSE, NoError, World)
    /\ UNCHANGED <<heap, root, version, base, keySpace, calls, used, shadow>>

Running == Holding /\ cursor.state \in {"created", "yielded"}

\* it.next(): runs the generator to its next yield, to its end, or to the
\* exception of validatePath
IteratorNext ==
    /\ Running
    /\ \E r \in {iteratorNext(World, cursor)} :
          /\ Commit(r.w)
          /\ cursor' = [r.it EXCEPT !.mutated = FALSE, !.others = FALSE]
          /\ op' = [from |-> cursor.state, mutated |-> cursor.mutated, others |-> cursor.others]
                   @@ Call("iterator.next", B, 0, NoEntry, r.it.path, FALSE,
                           r.it.state = "yielded",
                           IF r.it.state = "failed" THEN InvalidPath ELSE NoError, r.w)
    /\ UNCHANGED <<keySpace, calls, used, shadow>>

\* the calls made between two steps that take no path from the caller; a
\* merge carries its updater
Betweens(ks) ==
    Mutations(ks)
    \cup {[call |-> "merge", key |-> keyFromEntry(e), entry |-> e, updater |-> u] :
            e \in Entries(ks), u \in Updaters(ks)}

\* the call m: the tree after it and whether it committed (insert, updateAt
\* and merge return a path that is on, deleteAt returns true, upsert always
\* stores)
Perform(w, t, m) ==
    IF m.call = "insert"
    THEN Let(insert(w, t, m.entry), LAMBDA r : [w |-> r.w, committed |-> r.p.on])
    ELSE IF m.call = "upsert"
    THEN Let(upsert(w, t, m.entry), LAMBDA r : [w |-> r.w, committed |-> TRUE])
    ELSE IF m.call = "merge"
    THEN Let(merge(w, t, m.entry, m.updater), LAMBDA r :
             [w |-> r.w, committed |-> r.err = NoError /\ r.p.on])
    ELSE IF m.call = "updateAt"
    THEN Let(find(w, t, m.key), LAMBDA f :
         Let(updateAt(f.w, t, f.p, m.entry), LAMBDA r :
             [w |-> r.w, committed |-> r.err = NoError /\ r.p.on]))
    ELSE Let(find(w, t, m.key), LAMBDA f :
         Let(deleteAt(f.w, t, f.p), LAMBDA r :
             [w |-> r.w, committed |-> r.err = NoError /\ r.result]))

\* a call of the caller while the generator is suspended
Between(m) ==
    /\ Running
    /\ calls < MaxCalls
    /\ \E r \in {Perform(World, B, m)} :
          /\ Commit(r.w)
          /\ cursor' = [cursor EXCEPT !.mutated = @ \/ r.committed,
                                      !.others = @ \/ r.committed]
          /\ op' = Call(m.call, B, m.key, m.entry, NoPath, FALSE, r.committed, NoError, r.w)
    /\ shadow' = [shadow EXCEPT ![B] = IF m.call = "merge" THEN MapMerge(@, m.entry, m.updater)
                                       ELSE MapApply(@, m)]
    /\ Counted(m.call)
    /\ UNCHANGED keySpace

\* updateAt(path, entry) on the path the generator yielded, the object the
\* generator goes on to move
YieldedUpdateAt(entry) ==
    /\ Holding
    /\ cursor.state = "yielded"
    /\ calls < MaxCalls
    /\ \E r \in {updateAt(World, B, cursor.path, entry)} :
       LET p == cursor.path
           live == r.err = NoError /\ p.on
           committed == r.err = NoError /\ r.p.on
       IN /\ Commit(r.w)
          /\ op' = [Call("updateAt", B, IF live THEN KeyAt(p) ELSE 0, entry, r.p,
                         r.wasUpdate, r.p.on, r.err, r.w) EXCEPT !.held = TRUE]
          /\ cursor' = [cursor EXCEPT
                           !.path = IF r.err = NoError /\ r.wasUpdate THEN r.p ELSE @,
                           !.mutated = @ \/ committed,
                           !.others = @ \/ (committed /\ ~r.wasUpdate)]
          /\ shadow' = IF live THEN [shadow EXCEPT ![B] = MapUpdate(shadow[B], KeyAt(p), entry)]
                       ELSE shadow
    /\ Counted("updateAt")
    /\ UNCHANGED keySpace

\* deleteAt(path) on the path the generator yielded
YieldedDeleteAt ==
    /\ Holding
    /\ cursor.state = "yielded"
    /\ calls < MaxCalls
    /\ \E r \in {deleteAt(World, B, cursor.path)} :
       LET p == cursor.path
           live == r.err = NoError /\ p.on
           committed == r.err = NoError /\ r.result
       IN /\ Commit(r.w)
          /\ op' = [Call("deleteAt", B, IF live THEN KeyAt(p) ELSE 0, NoEntry, r.p,
                         FALSE, r.result, r.err, r.w) EXCEPT !.held = TRUE]
          /\ cursor' = [cursor EXCEPT !.path = IF r.err = NoError THEN r.p ELSE @,
                                      !.mutated = @ \/ committed,
                                      !.others = @ \/ committed]
          /\ shadow' = IF live THEN [shadow EXCEPT ![B] = MapDelete(shadow[B], KeyAt(p))]
                       ELSE shadow
    /\ Counted("deleteAt")
    /\ UNCHANGED keySpace

InitIter == InitWorld(IterWorkloads, FALSE)

NextIter ==
    \/ BeginAscending
    \/ BeginDescending
    \/ \E f \in IterBounds, l \in IterBounds, a \in BOOLEAN : BeginRange(KeyRange(f, l, a))
    \/ IteratorNext
    \/ \E m \in Betweens(keySpace) : Between(m)
    \/ \E e \in Entries(keySpace) : YieldedUpdateAt(e)
    \/ YieldedDeleteAt

SpecIter == InitIter /\ [][NextIter]_vars

(***************************************************************************)
(* Multi-level inheritance: B, D derived from B, D2 derived from D         *)
(***************************************************************************)
\* D2 = new BTree(keyFromEntry, compare, D)
D2 == 3

EmptyChain ==
    [heap |-> <<>>, root |-> <<NoNode, NoNode, NoNode>>, version |-> <<0, 0, 0>>,
     base |-> <<NoNode, NoNode, NoNode>>, writes |-> {}]

ChainWorkloads ==
    { Workload(Evens(NodeCapacity - 1), {4, 5}),
      Workload(Evens(NodeCapacity + 1), {2, 8}),
      Workload(Evens(NodeCapacity + 1), {3, 7}),
      Workload(Evens(2 * NodeCapacity), {2, 7}) }

EntrySet(entries) == {entries[i] : i \in 1..Len(entries)}

\* B after its seed and D = new BTree(keyFromEntry, compare, B); D2 is not
\* constructed yet
InitChain ==
    /\ \E wl \in ChainWorkloads :
        \E w \in {Seeded(EmptyChain, B, wl.seed)} :
           /\ heap = w.heap
           /\ root = w.root
           /\ version = w.version
           /\ base = <<NoNode, B, NoNode>>
           /\ keySpace = wl.keys
           /\ shadow = <<SeedEntries(wl.seed), SeedEntries(wl.seed), {}>>
    /\ cursor = NoCursor
    /\ op = NoCall
    /\ calls = 0
    /\ used = {}

\* the constructor with D as base: no node is read or written; the
\* reference map of D2 starts as what D holds now
DeriveD2 ==
    /\ base[D2] = NoNode
    /\ base' = [base EXCEPT ![D2] = D]
    /\ shadow' = [shadow EXCEPT ![D2] = EntrySet(getAllEntries(World, D))]
    /\ op' = Call("new", D2, 0, NoEntry, NoPath, FALSE, TRUE, NoError, World)
    /\ UNCHANGED <<heap, root, version, keySpace, cursor, calls, used>>

NextChain ==
    \/ (base[D2] = NoNode /\ Mutate(D))
    \/ DeriveD2
    \/ (base[D2] = D /\ Mutate(D2))

SpecChain == InitChain /\ [][NextChain]_vars

(***************************************************************************)
(* Scenario: keys inserted in increasing order into an empty tree          *)
(***************************************************************************)
\* 2C + 1 keys first, first + stride, ...
Rising(firstKey, stride) == {firstKey + stride * i : i \in 0..(2 * NodeCapacity)}

\* an empty tree and the keys still to insert
InitScenario ==
    /\ heap = EmptyWorld.heap
    /\ root = EmptyWorld.root
    /\ version = EmptyWorld.version
    /\ base = EmptyWorld.base
    /\ keySpace \in {Rising(firstKey, stride) : firstKey \in 0..3, stride \in 1..3}
    /\ shadow = [t \in Trees |-> {}]
    /\ cursor = NoCursor
    /\ op = NoCall
    /\ calls = 0
    /\ used = {}

\* insert(entry) with the smallest key not inserted yet
InsertRising ==
    /\ keySpace # {}
    /\ \E k \in keySpace :
         /\ \A x \in keySpace : k <= x
         /\ \E r \in {insert(World, B, <<k, SeedData>>)} :
              /\ Commit(r.w)
              /\ op' = Call("insert", B, k, <<k, SeedData>>, r.p, FALSE, r.p.on, NoError, r.w)
         /\ shadow' = [shadow EXCEPT ![B] = MapInsert(@, <<k, SeedData>>)]
         /\ keySpace' = keySpace \ {k}
    /\ Counted("insert")
    /\ UNCHANGED cursor

NextScenario == InsertRising

SpecScenario == InitScenario /\ [][NextScenario]_vars

(***************************************************************************)
(* Properties                                                              *)
(***************************************************************************)
KeySeq(entries) == [i \in 1..Len(entries) |-> keyFromEntry(entries[i])]

\* what a map holding the given entries returns for key k
MapGetEntry(entries, k) ==
    IF k \in KeysOf(entries) THEN EntryOf(entries, k) ELSE Undefined

ProbeKeys(t) == keySpace \cup KeysOf(shadow[t])

\* every node that exists before the step and is owned by t is the same after it
NodesOfUntouched(t) ==
    \A n \in 1..Len(heap) : heap[n].tree = t => heap'[n] = heap[n]

\* the step is a mutating call on tree t
CallOn(t) == calls' = calls + 1 /\ op'.tree = t

\* C1: while D has B as its base, a call on D (insert, updateAt, upsert,
\* merge, deleteAt, with whatever split, borrow or merge it causes) leaves
\* the content of every node owned by B, B's version and the ascending
\* sequence of B's entries as they were
C1_BaseUnchangedByDerived ==
    [][ (base[D] = B /\ CallOn(D)) =>
           /\ NodesOfUntouched(B)
           /\ version'[B] = version[B]
           /\ getAllEntries(WorldNext, B) = getAllEntries(World, B) ]_vars

\* D, still over B, has rebalanced or split below a branch-rooted B
C1_Witness ==
    /\ base[D] = B
    /\ op.tree = D
    /\ op.name \in {"deleteAt", "insert"}
    /\ op.result
    /\ Cardinality(op.writes) >= 2
    /\ root[B] # NoNode
    /\ ~heap[root[B]].leaf

\* C2: a derived tree reads as the reference map (B's entries at derivation
\* with D's insert, updateAt and deleteAt applied): same ascending sequence,
\* same get for every key
C2_DerivedIsMap ==
    (base[D] = B /\ used \subseteq {"insert", "updateAt", "deleteAt"}) =>
        /\ getAllEntries(World, D) = SortedEntries(shadow[D])
        /\ \A k \in ProbeKeys(D) : get(World, D, k) = MapGetEntry(shadow[D], k)

\* C3: after clearBase() on D, a call on the former base B changes neither
\* the ascending sequence of D nor get(D, k) for any k
C3_ClearedUnchangedByBase ==
    [][ (base[D] = NoNode /\ CallOn(B)) =>
           /\ getAllEntries(WorldNext, D) = getAllEntries(World, D)
           /\ \A k \in ProbeKeys(D) \cup ProbeKeys(B) :
                 get(WorldNext, D, k) = get(World, D, k) ]_vars

\* C4: every node a call on D wrote to is owned by D
C4_WritesOwnNodes ==
    op.tree = D => \A n \in op.writes : heap[n].tree = D

\* C5: on a standalone tree, after insert, upsert, updateAt and deleteAt
\* calls, ascending iteration from first() yields exactly the keys a map
\* would hold, each once, in increasing order
C5_AscendingIsSortedKeys ==
    used \subseteq {"insert", "upsert", "updateAt", "deleteAt"} =>
        KeySeq(getAllEntries(World, B)) = KeySeq(SortedEntries(shadow[B]))

\* the number of entries that come before position (leaf, index) in
\* ascending order; index may be the length of the leaf
RECURSIVE RankFrom(_, _, _, _, _, _)
RankFrom(w, path, leaf, index, inLeaf, n) ==
    IF ~path.on THEN n
    ELSE IF path.leafNode = leaf
         THEN IF path.leafIndex >= index THEN n
              ELSE RankFrom(w, internalNext(w, path), leaf, index, TRUE, n + 1)
         ELSE IF inLeaf THEN n
              ELSE RankFrom(w, internalNext(w, path), leaf, index, FALSE, n + 1)

Rank(w, t, leaf, index) ==
    RankFrom(w, getFirst(w, t, RootOf(w, t)), leaf, index, FALSE, 0)

\* C6: on a standalone tree, after inserts and deletes, find(k) is on iff k
\* is stored, then at(find(k)) and get(k) are the stored entry; otherwise
\* get(k) is undefined and find(k) is the lower bound: exactly the entries
\* with a smaller key come before it
C6_FindIsExact ==
    used \subseteq {"insert", "deleteAt"} =>
        \A k \in ProbeKeys(B) :
            LET f == find(World, B, k)
                stored == getAllEntries(f.w, B)
            IN /\ f.p.on <=> k \in KeysOf(shadow[B])
               /\ f.p.on => /\ atPath(f.w, f.p) = EntryOf(shadow[B], k)
                            /\ get(World, B, k) = EntryOf(shadow[B], k)
               /\ ~f.p.on => /\ get(World, B, k) = Undefined
                             /\ Rank(f.w, B, f.p.leafNode, f.p.leafIndex)
                                  = Cardinality({i \in 1..Len(stored) : keyFromEntry(stored[i]) < k})

\* the step is a call that went through: insert, updateAt or merge that
\* returned a path that is on, any upsert, deleteAt that returned true
Committed ==
    /\ calls' = calls + 1
    /\ op'.err = NoError
    /\ \/ op'.name \in {"insert", "updateAt", "merge"} /\ op'.path.on
       \/ op'.name = "upsert"
       \/ op'.name = "deleteAt" /\ op'.result

\* the step is one of the nine calls that take the held path
Consumes ==
    /\ op'.held
    /\ op'.name \in {"at", "updateAt", "deleteAt", "moveNext", "movePrior",
                     "next", "prior", "ascending", "descending"}

\* the call failed with the invalid-path error and changed neither the tree
\* nor the path
FailsInvalid ==
    /\ op'.err = InvalidPath
    /\ heap' = heap
    /\ root' = root
    /\ version' = version
    /\ cursor' = cursor

\* the held path is the one updateAt was given and hands back
HandedBack == op'.name = "updateAt" /\ op'.held /\ op'.wasUpdate

\* C7 as stated: after any call that went through, the path held since
\* before it is not valid, and each of the nine calls on a path that is not
\* valid fails with the invalid-path error and changes nothing
C7_EveryHeldPathInvalidated ==
    [][ /\ (Holding /\ Committed) => ~isValid(WorldNext, B, cursor'.path)
        /\ (Holding /\ ~isValid(World, B, cursor.path) /\ Consumes) => FailsInvalid ]_vars

\* C7, amended: as stated, for every held path but the one that the call
\* that went through, an updateAt keeping the key, was given and hands back
\* stamped with the new version
C7_StalePathFails ==
    [][ /\ (Holding /\ Committed /\ ~HandedBack) => ~isValid(WorldNext, B, cursor'.path)
        /\ (Holding /\ ~isValid(World, B, cursor.path) /\ Consumes) => FailsInvalid ]_vars

\* a path that was on an entry before a call went through has been turned
\* down by deleteAt
C7_Witness ==
    /\ Holding
    /\ op.held
    /\ op.name = "deleteAt"
    /\ op.err = InvalidPath
    /\ cursor.path.on
    /\ cursor.path.version < version[B]

\* some node that exists before the step differs after it, or the entries do
TreeChanged(t) ==
    \/ \E n \in 1..Len(heap) : heap'[n] # heap[n]
    \/ getAllEntries(WorldNext, t) # getAllEntries(World, t)

\* C8: a call that changes the tree leaves the version at its old value
\* plus 1, and no call lowers the version
C8_OneBumpPerMutation ==
    [][ /\ (CallOn(B) /\ TreeChanged(B)) => version'[B] = version[B] + 1
        /\ version'[B] >= version[B] ]_vars

\* the keys ascending iteration finds in the tree
Stored(w, t) ==
    LET all == getAllEntries(w, t) IN {keyFromEntry(all[i]) : i \in 1..Len(all)}

\* the step is one of the four calls that are to be turned down: insert of
\* a stored key, updateAt or deleteAt through a path that is off, updateAt
\* from an entry to another key that is stored
C9_ToBeRejected(t) ==
    LET on == find(World, t, op'.key).p.on
        newKey == keyFromEntry(op'.entry)
    IN \/ op'.name = "insert" /\ op'.key \in Stored(World, t)
       \/ op'.name = "updateAt" /\ ~on
       \/ op'.name = "updateAt" /\ on /\ newKey # op'.key /\ newKey \in Stored(World, t)
       \/ op'.name = "deleteAt" /\ ~on

\* C9: a call that is to be turned down reports it (insert: path off;
\* updateAt: path off, wasUpdate true exactly when the given path was off;
\* deleteAt: false) and leaves every node, the entries and the version, and
\* with the version the validity of every path, as they were
C9_RejectedIsNoOp ==
    [][ (CallOn(B) /\ C9_ToBeRejected(B)) =>
           /\ op'.name = "insert" => ~op'.path.on
           /\ op'.name = "updateAt" =>
                 ~op'.path.on /\ (op'.wasUpdate <=> ~find(World, B, op'.key).p.on)
           /\ op'.name = "deleteAt" => ~op'.result
           /\ \A n \in 1..Len(heap) : heap'[n] = heap[n]
           /\ version' = version
           /\ getAllEntries(WorldNext, B) = getAllEntries(World, B) ]_vars

\* C10: insert of a key that is not stored returns a path that is on,
\* carries the new version, has the entry under it, and is the path find()
\* gives for that key on the resulting tree (leaf, leaf index, branch nodes,
\* child indices)
C10_InsertPathIsFindPath ==
    [][ (CallOn(B) /\ op'.name = "insert" /\ op'.key \notin Stored(World, B)) =>
           /\ op'.path.on
           /\ isValid(WorldNext, B, op'.path)
           /\ version'[B] = version[B] + 1
           /\ atPath(WorldNext, op'.path) = op'.entry
           /\ find(WorldNext, B, op'.key).p = op'.path ]_vars

\* the insert split a leaf and the root above it
C10_Witness ==
    /\ op.name = "insert"
    /\ op.result
    /\ root[B] = Len(heap)
    /\ Len(op.path.branches) >= 2

\* the entries with the one under key k left out
Without(entries, k) == SelectSeq(entries, LAMBDA e : keyFromEntry(e) # k)

\* C11: on a standalone tree, deleteAt through a path that is on an entry
\* returns true, leaves the path off, takes exactly that entry out of the
\* ascending sequence, and leaves get(k) of every other key as it was
C11_DeleteRemovesOne ==
    [][ (CallOn(B) /\ op'.name = "deleteAt" /\ find(World, B, op'.key).p.on) =>
           /\ op'.result
           /\ ~op'.path.on
           /\ getAllEntries(WorldNext, B) = Without(getAllEntries(World, B), op'.key)
           /\ get(WorldNext, B, op'.key) = Undefined
           /\ \A k \in (ProbeKeys(B) \cup Stored(World, B)) \ {op'.key} :
                 get(WorldNext, B, k) = get(World, B, k) ]_vars

\* the step is a mutating call of the given name
Calls(name) == calls' = calls + 1 /\ op'.name = name

\* get(k) is the same after the step as before it, for every key but k0
OthersKept(t, k0) ==
    \A k \in (ProbeKeys(t) \cup Stored(World, t)) \ {k0} :
        get(WorldNext, t, k) = get(World, t, k)

\* C12: updateAt through a path on an entry, to an entry with the same key,
\* puts the new entry in its place: the keys and all other entries stay,
\* get of the key returns the new entry, wasUpdate is true, and the path
\* returned is on, carries the new version and has the new entry under it
C12_UpdateInPlace ==
    [][ (/\ Calls("updateAt")
         /\ find(World, op'.tree, op'.key).p.on
         /\ keyFromEntry(op'.entry) = op'.key) =>
           /\ Stored(WorldNext, op'.tree) = Stored(World, op'.tree)
           /\ OthersKept(op'.tree, op'.key)
           /\ get(WorldNext, op'.tree, op'.key) = op'.entry
           /\ op'.wasUpdate
           /\ op'.path.on
           /\ isValid(WorldNext, op'.tree, op'.path)
           /\ atPath(WorldNext, op'.path) = op'.entry ]_vars

\* C13: on a standalone tree, updateAt through a path on the entry of k1 to
\* an entry whose key k2 is another one and not stored: afterwards k1 is not
\* stored, get(k2) is the new entry, every other entry is as it was, there
\* are as many entries as before, wasUpdate is false, and the path returned
\* is on, carries the tree's version and has the new entry under it
C13_UpdateMovesEntry ==
    [][ (/\ CallOn(B) /\ op'.name = "updateAt"
         /\ find(World, B, op'.key).p.on
         /\ keyFromEntry(op'.entry) # op'.key
         /\ keyFromEntry(op'.entry) \notin Stored(World, B)) =>
           /\ op'.key \notin Stored(WorldNext, B)
           /\ get(WorldNext, B, op'.key) = Undefined
           /\ get(WorldNext, B, keyFromEntry(op'.entry)) = op'.entry
           /\ \A k \in (ProbeKeys(B) \cup Stored(World, B)) \ {op'.key, keyFromEntry(op'.entry)} :
                 get(WorldNext, B, k) = get(World, B, k)
           /\ Len(getAllEntries(WorldNext, B)) = Len(getAllEntries(World, B))
           /\ ~op'.wasUpdate
           /\ op'.path.on
           /\ isValid(WorldNext, B, op'.path)
           /\ atPath(WorldNext, op'.path) = op'.entry ]_vars

\* C14: upsert leaves get of the entry's key at the entry and every other
\* entry as it was, and raises the version; the path returned carries the
\* new version and is on exactly when the key was stored before the call
C14_UpsertStores ==
    [][ Calls("upsert") =>
           /\ get(WorldNext, op'.tree, op'.key) = op'.entry
           /\ OthersKept(op'.tree, op'.key)
           /\ version'[op'.tree] > version[op'.tree]
           /\ isValid(WorldNext, op'.tree, op'.path)
           /\ op'.path.on <=> op'.key \in Stored(World, op'.tree) ]_vars

StoredEntry(w, t, k) ==
    LET all == getAllEntries(w, t)
    IN all[CHOOSE i \in 1..Len(all) : keyFromEntry(all[i]) = k]

\* C16: merge of an entry whose key is not stored inserts it and returns
\* (path on, wasUpdate false); merge of an entry whose key is stored with
\* entry x, with an updater that keeps the key, stores updater(x) and
\* returns (path on, wasUpdate true); either way the path carries the
\* tree's version after the call and every other entry is as it was
C16_MergeInsertsOrUpdates ==
    [][ \A t \in Trees, e \in Entries(keySpace), u \in Updaters(keySpace) :
          Merge(t, e, u) =>
            LET k == keyFromEntry(e)
                absent == k \notin Stored(World, t)
                kept == ~absent /\ keyFromEntry(getUpdated(u, StoredEntry(World, t, k))) = k
            IN /\ absent => /\ get(WorldNext, t, k) = e
                            /\ ~op'.wasUpdate
               /\ kept => /\ get(WorldNext, t, k) = getUpdated(u, StoredEntry(World, t, k))
                          /\ op'.wasUpdate
               /\ (absent \/ kept) => /\ op'.path.on
                                      /\ isValid(WorldNext, t, op'.path)
                                      /\ OthersKept(t, k) ]_vars

\* the tree after the call the callback of the step's merge made
AfterCallback == ApplyMutation(World, B, op'.callback)

\* C17: when the callback of merge makes a call on the same tree that
\* raises the version, merge fails with the invalid-path error and the tree
\* is left as the callback's call left it
C17_MergeDetectsCallback ==
    [][ (/\ Calls("merge")
         /\ "callback" \in DOMAIN op'
         /\ op'.called
         /\ AfterCallback.version[B] # version[B]) =>
           /\ op'.err = InvalidPath
           /\ heap' = AfterCallback.heap
           /\ root' = AfterCallback.root
           /\ version' = AfterCallback.version
           /\ version'[B] = version[B] + 1 ]_vars

\* the callback's call wrote to two nodes or more (a split or a rebalance),
\* raised the version once, and merge was turned down
C17_Witness ==
    /\ op.name = "merge"
    /\ op.err = InvalidPath
    /\ Cardinality(op.writes) >= 2
    /\ version[B] = op.before + 1

\* the keys probed: every key from below the smallest seed key to above the
\* largest
KeyLine == 0..(2 * 6 * NodeCapacity)

\* the smallest, the largest key of a non-empty set
MinKey(ks) == CHOOSE k \in ks : \A x \in ks : k <= x
MaxKey(ks) == CHOOSE k \in ks : \A x \in ks : k >= x

\* next(path): moveNext on a clone
next(w, t, path) ==
    IF ~isValid(w, t, path) THEN [p |-> path, err |-> InvalidPath]
    ELSE [p |-> internalNext(w, path), err |-> NoError]

\* C20: for every key k that is not stored, next(find(k)) is on the entry
\* with the smallest key above k when there is one, wherever in the tree it
\* is, and is off only when no stored key is above k
C20_NextOffCrack ==
    \A k \in KeyLine \ Stored(World, B) :
        LET f == find(World, B, k)
            n == next(f.w, B, f.p).p
            above == {s \in Stored(f.w, B) : s > k}
        IN IF above = {} THEN ~n.on
           ELSE n.on /\ keyFromEntry(atPath(f.w, n)) = MinKey(above)

\* the endpoints tried: none, or a key of the workload (stored or not), the
\* key below every seed key, or the key above the first full leaf of a seed,
\* inclusive or not
RangeKeys == keySpace \cup {0, 2 * NodeCapacity + 1}

Bounds == {NoBound} \cup {KeyBound(k, i) : k \in RangeKeys, i \in BOOLEAN}

Ranges == {KeyRange(f, l, a) : f \in Bounds, l \in Bounds, a \in BOOLEAN}

\* the key lies on the range's side of the bound
Above(b, k) == ~b.present \/ k > b.key \/ (b.inclusive /\ k = b.key)
Below(b, k) == ~b.present \/ k < b.key \/ (b.inclusive /\ k = b.key)

InRange(r, k) ==
    IF r.isAscending THEN Above(r.first, k) /\ Below(r.last, k)
    ELSE Below(r.first, k) /\ Above(r.last, k)

Reversed(s) == [i \in 1..Len(s) |-> s[Len(s) + 1 - i]]

\* the stored entries inside the range, in the range's direction
Expected(r) ==
    LET inside == SelectSeq(getAllEntries(World, B), LAMBDA e : InRange(r, keyFromEntry(e)))
    IN IF r.isAscending THEN inside ELSE Reversed(inside)

\* C19: on a non-empty tree, range(r) yields exactly the stored entries whose
\* keys satisfy both bounds of r, each once, in the order of r's direction,
\* for every choice of endpoints, inclusive flags and direction
C19_RangeYieldsExactly ==
    getAllEntries(World, B) # <<>> =>
        \A r \in Ranges : Collect(World, range(B, r)) = Expected(r)

\* a step of the generator resumed after a yield
Resumed == op'.name = "iterator.next" /\ cursor' # cursor /\ cursor.state = "yielded"

\* the generator throws the invalid-path error and yields nothing
StepFails == cursor'.state = "failed" /\ op'.err = InvalidPath /\ ~op'.result

\* the generator goes on as it would on the tree left alone: it yields
\* the path of the neighbouring entry in its direction, or ends
StepContinues ==
    /\ cursor'.state \in {"yielded", "done"}
    /\ op'.err = NoError
    /\ UNCHANGED <<heap, root, version>>
    /\ cursor'.state = "yielded" => atPath(World, cursor'.path) # Undefined

prior(w, t, path) ==
    IF ~isValid(w, t, path) THEN [p |-> path, err |-> InvalidPath]
    ELSE [p |-> internalPrior(w, path), err |-> NoError]

\* C21: for every key k that is not stored, prior(find(k)) is on the entry
\* with the largest key below k when there is one, wherever in the tree it
\* is, and is off only when no stored key is below k
C21_PriorOffCrack ==
    \A k \in KeyLine \ Stored(World, B) :
        LET f == find(World, B, k)
            n == prior(f.w, B, f.p).p
            below == {s \in Stored(f.w, B) : s < k}
        IN IF below = {} THEN ~n.on
           ELSE n.on /\ keyFromEntry(atPath(f.w, n)) = MaxKey(below)

\* the nodes of the subtree under a node, the node included
RECURSIVE Subtree(_, _)
Subtree(h, node) ==
    IF h[node].leaf THEN {node}
    ELSE {node} \cup UNION {Subtree(h, h[node].nodes[i]) : i \in 1..Len(h[node].nodes)}

\* the keys stored in the leaves of a subtree
SubtreeKeys(h, node) ==
    UNION {KeysOf({h[n].entries[i] : i \in 1..Len(h[n].entries)}) : n \in Subtree(h, node)}

\* the nodes tree B reaches from its root
TreeNodes == IF root[B] = NoNode THEN {} ELSE Subtree(heap, root[B])

\* a branch routes: one child more than partitions, every key under child i
\* below partition i, every key under child i + 1 at or above it
Routes(h, node) ==
    LET P == h[node].partitions
        N == h[node].nodes
    IN /\ Len(N) = Len(P) + 1
       /\ \A i \in 1..Len(P) :
            /\ i + 1 <= Len(N)
            /\ \A k \in SubtreeKeys(h, N[i]) : k < P[i]
            /\ \A k \in SubtreeKeys(h, N[i + 1]) : k >= P[i]

\* C29: on a tree without a base, after any inserts and deletes and at any
\* height, every branch has one child more than partitions and its
\* partitions separate the keys of neighbouring subtrees
C29_PartitionsRoute ==
    \A n \in TreeNodes : ~heap[n].leaf => Routes(heap, n)

\* the entries visited by ascending(first()), by descending(last())
Ascent(w, t) == Let(first(w, t), LAMBDA f : Collect(f.w, ascending(f.w, t, f.p).it))

Descent(w, t) == Let(last(w, t), LAMBDA f : Collect(f.w, descending(f.w, t, f.p).it))

Distinct(s) == \A i, j \in 1..Len(s) : s[i] = s[j] => i = j

\* C23: in every state, for the base tree and the derived tree alike,
\* ascending iteration yields no two entries with equal keys, whatever
\* borrow or merge between leaves the calls before have caused
C23_KeysUnique ==
    \A t \in Trees : Distinct(KeySeq(getAllEntries(World, t)))

\* the step constructs D2 over D
Derives == base[D2] = NoNode /\ base'[D2] = D

\* C24: D2 derived from D derived from B first reads as D; every call on D2
\* leaves the ascending sequences of D and of B as they were, and D2 reads
\* as D's entries at derivation with D2's calls applied
C24_MultiLevel ==
    [][ /\ Derives => getAllEntries(WorldNext, D2) = getAllEntries(World, D)
        /\ CallOn(D2) =>
             /\ getAllEntries(WorldNext, D) = getAllEntries(World, D)
             /\ getAllEntries(WorldNext, B) = getAllEntries(World, B)
             /\ getAllEntries(WorldNext, D2) = SortedEntries(shadow'[D2]) ]_vars

\* the step is D.clearBase() on a tree that has a base
ClearsBase == op'.name = "clearBase" /\ base[D] = B /\ base'[D] = NoNode

\* the paths a caller may hold on tree t: first(), last(), find(k)
PathsOf(w, t) ==
    {first(w, t).p, last(w, t).p} \cup {find(w, t, k).p : k \in ProbeKeys(t)}

\* C25: clearBase() changes no node and no version, leaves the ascending
\* sequence of the tree and of its former base as they were, and every path
\* that was valid before is valid after and is on the same entry
C25_ClearBaseRerootsOnly ==
    [][ ClearsBase =>
          /\ \A n \in 1..Len(heap) : heap'[n] = heap[n]
          /\ version' = version
          /\ getAllEntries(WorldNext, D) = getAllEntries(World, D)
          /\ getAllEntries(WorldNext, B) = getAllEntries(World, B)
          /\ \A t \in Trees : \A p \in PathsOf(World, t) :
                isValid(World, t, p) =>
                    /\ isValid(WorldNext, t, p)
                    /\ atPath(WorldNext, p) = atPath(World, p) ]_vars

\* clearBase() has run on a derived tree that never wrote and so takes over
\* the root of its base, and on one that had written nodes of its own
C25_Witness ==
    /\ op.name = "clearBase"
    /\ base[D] = NoNode
    /\ getAllEntries(World, D) # <<>>
    /\ \/ root[D] = root[B]
       \/ \E n \in 1..Len(heap) : heap[n].tree = D

\* C26: getCount({path: p}) with a path p whose version is not the tree's
\* fails with the invalid-path error, counting ascending or descending
C26_GetCountChecksVersion ==
    (Holding /\ ~isValid(World, B, cursor.path)) =>
        \A isAscending \in BOOLEAN :
            getCount(World, B, cursor.path, isAscending).err = InvalidPath

\* all 2C + 1 keys of the scenario are in
ScenarioDone == keySpace = {} /\ calls = 2 * NodeCapacity + 1

\* the root is a branch over leaves of H to C entries each, and ascending
\* iteration yields the keys inserted
BranchOverLeaves ==
    /\ ~heap[root[B]].leaf
    /\ \A i \in 1..Len(heap[root[B]].nodes) :
         LET child == heap[heap[root[B]].nodes[i]]
         IN child.leaf /\ Len(child.entries) >= Half /\ Len(child.entries) <= NodeCapacity
    /\ Len(getAllEntries(World, B)) = 2 * NodeCapacity + 1
    /\ getAllEntries(World, B) = SortedEntries(shadow[B])

\* C27 as stated: after 2C + 1 keys inserted in increasing order the root is
\* a branch with two children, both leaves of H to C entries, and iteration
\* yields the keys in order
C27_TwoLeaves ==
    ScenarioDone => BranchOverLeaves /\ Len(heap[root[B]].nodes) = 2

\* C27 amended: the root is a branch with three or more children, all leaves
\* of H to C entries, and iteration yields the keys in order
C27_LeavesUnderRoot ==
    ScenarioDone => BranchOverLeaves /\ Len(heap[root[B]].nodes) >= 3

\* the last key of the scenario has been inserted
C27_Witness ==
    /\ ScenarioDone
    /\ op.name = "insert"
    /\ op.result
    /\ ~heap[root[B]].leaf

(***************************************************************************)
(* Draining: a tree of some height is emptied entry by entry and used      *)
(* again                                                                   *)
(***************************************************************************)
DrainWorkloads ==
    { Workload(Evens(1), {2, 3}),
      Workload(Evens(NodeCapacity), {1, 4}),
      Workload(Evens(NodeCapacity + 1), {5}),
      Workload(Evens(2 * NodeCapacity + 2), {12}),
      Workload(Evens(6 * NodeCapacity - 1), {25}) }

\* calls enough to empty the largest seed and go on
MaxDrain == 6 * NodeCapacity + MaxCalls

InitDrain == InitWorld(DrainWorkloads, FALSE)

\* deleteAt(find(key))
Drain(key) ==
    /\ calls < MaxDrain
    /\ \E f \in {find(World, B, key)} : \E r \in {deleteAt(f.w, B, f.p)} :
          /\ Commit(r.w)
          /\ op' = Call("deleteAt", B, key, NoEntry, r.p, FALSE, r.result, r.err, r.w)
    /\ shadow' = [shadow EXCEPT ![B] = MapDelete(@, key)]
    /\ Counted("deleteAt")
    /\ UNCHANGED <<keySpace, cursor>>

\* the entry with the smallest key is deleted
DrainLowest ==
    /\ Stored(World, B) # {}
    /\ Drain(MinKey(Stored(World, B)))

\* the entry with the largest key is deleted
DrainHighest ==
    /\ Stored(World, B) # {}
    /\ Drain(MaxKey(Stored(World, B)))

\* insert(entry) into the emptied tree
Refill(entry) ==
    /\ Stored(World, B) = {}
    /\ calls < MaxDrain
    /\ \E r \in {insert(World, B, entry)} :
          /\ Commit(r.w)
          /\ op' = Call("insert", B, keyFromEntry(entry), entry, r.p, FALSE, r.p.on, NoError, r.w)
    /\ shadow' = [shadow EXCEPT ![B] = MapInsert(@, entry)]
    /\ Counted("insert")
    /\ UNCHANGED <<keySpace, cursor>>

NextDrain ==
    \/ DrainLowest
    \/ DrainHighest
    \/ \E e \in Entries(keySpace) : Refill(e)

SpecDrain == InitDrain /\ [][NextDrain]_vars

\* the entries in the leaves the tree reaches from its root
Held == UNION {EntrySet(heap[n].entries) : n \in TreeNodes}

\* the root is one leaf without entries
RootIsEmptyLeaf ==
    /\ root[B] # NoNode
    /\ heap[root[B]].leaf
    /\ heap[root[B]].entries = <<>>

\* the tree a first insert(entry) leaves of a fresh tree
Fresh(entry) == insert(EmptyWorld, B, entry).w

\* C28: first().on and last().on are both false exactly when the tree holds
\* no entry; the delete of the last entry, whatever height the tree had,
\* leaves an empty leaf as the root; and an insert after that gives what it
\* gives on a fresh tree
C28_EmptyTree ==
    [][ /\ (~first(WorldNext, B).p.on /\ ~last(WorldNext, B).p.on) <=> Held' = {}
        /\ (CallOn(B) /\ op'.name = "deleteAt" /\ Held # {} /\ Held' = {}) => RootIsEmptyLeaf'
        /\ (CallOn(B) /\ op'.name = "insert" /\ Held = {}) =>
              /\ op'.result
              /\ heap'[root'[B]] = Fresh(op'.entry).heap[Fresh(op'.entry).root[B]]
              /\ getAllEntries(WorldNext, B) = <<op'.entry>>
              /\ get(WorldNext, B, op'.key) = op'.entry ]_vars

\* the tree of three levels was emptied and took an entry again
C28_Witness ==
    /\ keySpace = {25}
    /\ op.name = "insert"
    /\ op.result
    /\ RootIsEmptyLeaf = FALSE
    /\ Held = {op.entry}

\* what node n holds: the entries of a leaf, the children of a branch
Fill(n) == IF heap[n].leaf THEN Len(heap[n].entries) ELSE Len(heap[n].nodes)

\* C30: in a tree without a base, between operations, every leaf holds at
\* most C entries and every branch at most C children, every leaf and branch
\* but the root holds at least H = C/2, and a root that is a branch has at
\* least two children
C30_FillInvariant ==
    \A n \in TreeNodes :
        /\ Fill(n) <= NodeCapacity
        /\ n # root[B] => Fill(n) >= Half
        /\ (n = root[B] /\ ~heap[n].leaf) => Fill(n) >= 2

\* after a delete, a tree of three levels with a leaf and an inner branch
\* at exactly H
C30_Witness ==
    /\ op.name = "deleteAt"
    /\ op.result
    /\ ~heap[root[B]].leaf
    /\ \E n \in TreeNodes : n # root[B] /\ ~heap[n].leaf /\ Fill(n) = Half
    /\ \E n \in TreeNodes : heap[n].leaf /\ Fill(n) = Half
    /\ \E n \in TreeNodes : heap[n].leaf /\ Fill(n) = NodeCapacity

\* the nodes tree D reaches from its root (its base's root until it has one)
DerivedNodes(w) ==
    IF RootOf(w, D) = NoNode THEN {} ELSE Subtree(w.heap, RootOf(w, D))

\* C31: a private copy that mutableLeaf or mutableBranch makes for derived
\* tree D is in D's tree when the call ends: after an insert or deleteAt on D
\* that drops no node from D's tree, every node the call wrote to is owned
\* by D and reachable from D's root
C31_ClonesLinked ==
    [][ ( /\ base[D] = B
          /\ CallOn(D)
          /\ op'.name \in {"insert", "deleteAt"}
          /\ Cardinality(DerivedNodes(WorldNext)) >= Cardinality(DerivedNodes(World)) ) =>
        \A n \in op'.writes :
            /\ heap'[n].tree = D
            /\ n \in DerivedNodes(WorldNext) ]_vars

\* C32: on a tree without a base, whatever inserts and deletes were made,
\* every partition of every branch is the lowest key stored under the child
\* to its right
C32_PartitionsAreMinima ==
    \A n \in TreeNodes :
        ~heap[n].leaf =>
            \A i \in 1..Len(heap[n].partitions) :
                /\ SubtreeKeys(heap, heap[n].nodes[i + 1]) # {}
                /\ heap[n].partitions[i] = MinKey(SubtreeKeys(heap, heap[n].nodes[i + 1]))

\* getCount() without an argument: counted from first()
CountAll(w, t) == Let(first(w, t), LAMBDA f : getCount(f.w, t, f.p, TRUE))

\* what getCount returns without throwing
Counts(n) == [count |-> n, err |-> NoError]

\* the entries under a node, leaf by leaf from left to right
RECURSIVE InOrder(_, _)
InOrder(h, node) ==
    IF h[node].leaf THEN h[node].entries
    ELSE LET RECURSIVE Across(_)
             Across(i) == IF i > Len(h[node].nodes) THEN <<>>
                          ELSE InOrder(h, h[node].nodes[i]) \o Across(i + 1)
         IN Across(1)

\* the entries stored in tree B, in the order of its leaves
StoredSeq == IF root[B] = NoNode THEN <<>> ELSE InOrder(heap, root[B])

\* the entries that stand before the entry a path is on: those under the
\* children left of the path at every branch, and those left of it in its leaf
RECURSIVE Before(_, _)
Before(path, depth) ==
    IF depth > Len(path.branches) THEN path.leafIndex
    ELSE LET branch == path.branches[depth]
             RECURSIVE Left(_)
             Left(i) == IF i > branch.index THEN 0
                        ELSE Len(InOrder(heap, heap[branch.node].nodes[i])) + Left(i + 1)
         IN Left(1) + Before(path, depth + 1)

\* what getCount is to return in a state, with and without a path
C33_Counted ==
    /\ CountAll(World, B) = Counts(Len(StoredSeq))
    /\ (Holding /\ isValid(World, B, cursor.path)) =>
          IF cursor.path.on
          THEN /\ getCount(World, B, cursor.path, TRUE) =
                     Counts(Len(StoredSeq) - Before(cursor.path, 1))
               /\ getCount(World, B, cursor.path, FALSE) =
                     Counts(Before(cursor.path, 1) + 1)
               /\ StoredSeq[Before(cursor.path, 1) + 1] = atPath(World, cursor.path)
          ELSE \A isAscending \in BOOLEAN :
                   getCount(World, B, cursor.path, isAscending) = Counts(0)

LeavesOf(h, S) == {n \in S : h[n].leaf}

\* C34: when a deleteAt merges two leaves below a branch that is not the
\* root and that keeps at least H children, nothing happens at branch
\* level: the branch only loses that child, its parent keeps its children
\* and the number of its partitions, and its sibling branches keep their
\* children and partitions
C34_BranchRebalanceOnUnderflow ==
    [][ (CallOn(B) /\ op'.name = "deleteAt" /\ op'.result) =>
        LET f == find(World, B, op'.key).p
            depth == Len(f.branches)
            branch == f.branches[depth].node
            parent == f.branches[depth - 1].node
        IN ( /\ depth >= 2
             /\ Cardinality(LeavesOf(heap', Subtree(heap', root'[B])))
                   = Cardinality(LeavesOf(heap, TreeNodes)) - 1
             /\ Len(heap[branch].nodes) - 1 >= Half ) =>
           /\ Len(heap'[branch].nodes) = Len(heap[branch].nodes) - 1
           /\ heap'[parent].nodes = heap[parent].nodes
           /\ Len(heap'[parent].partitions) = Len(heap[parent].partitions)
           /\ \A i \in 1..Len(heap[parent].nodes) :
                 LET sib == heap[parent].nodes[i]
                 IN sib # branch =>
                       /\ heap'[sib].nodes = heap[sib].nodes
                       /\ heap'[sib].partitions = heap[sib].partitions ]_vars

\* the distances from a node down to the leaves under it
RECURSIVE LeafDepths(_, _)
LeafDepths(h, node) ==
    IF h[node].leaf THEN {0}
    ELSE {d + 1 : d \in UNION {LeafDepths(h, h[node].nodes[i]) : i \in 1..Len(h[node].nodes)}}

\* C35: in every state of the base tree and of the derived tree, all leaves
\* are at the same depth below the root, and the children of a branch are
\* all leaves or all branches
C35_HeightBalanced ==
    \A t \in Trees :
        RootOf(World, t) # NoNode =>
            /\ Cardinality(LeafDepths(heap, RootOf(World, t))) = 1
            /\ \A n \in Subtree(heap, RootOf(World, t)) :
                  ~heap[n].leaf =>
                      \A i, j \in 1..Len(heap[n].nodes) :
                          heap[heap[n].nodes[i]].leaf = heap[heap[n].nodes[j]].leaf

\* the derived tree has written and stands three levels high
C35_Witness ==
    /\ op.tree = D
    /\ op.name \in {"insert", "deleteAt"}
    /\ op.result
    /\ root[D] # NoNode
    /\ LeafDepths(heap, root[D]) = {2}

ReadWorkloads ==
    { Workload(<<>>, {2}),
      Workload(Evens(2), {3}),
      Workload(Evens(NodeCapacity + 1), {4}),
      Workload(Evens(2 * NodeCapacity), {8}) }

PathReads == {"find", "get", "at", "isValid", "next", "prior", "moveNext", "movePrior",
              "getCount", "ascending", "descending"}

ReadNames == {"first", "last", "range"} \cup PathReads

InitRead == InitWorld(ReadWorkloads, TRUE)

\* for (const path of generator) to its end: what the tree is afterwards
RECURSIVE Consume(_, _)
Consume(w, it) ==
    Let(iteratorNext(w, it), LAMBDA r :
        IF r.it.state = "yielded" THEN Consume(r.w, r.it) ELSE r.w)

\* one reading call on D: first(), last(), a range from key, or p = find(key)
\* followed by the call named on p; the generators are run to their end
ReadD(name, key, isAscending) ==
    /\ \E f \in {find(World, D, key)} :
       \E w \in { CASE name = "first" -> first(World, D).w
                    [] name = "last" -> last(World, D).w
                    [] name = "range" ->
                          Consume(World, range(D, KeyRange(KeyBound(key, TRUE), NoBound, isAscending)))
                    [] name = "ascending" -> Consume(f.w, ascending(f.w, D, f.p).it)
                    [] name = "descending" -> Consume(f.w, descending(f.w, D, f.p).it)
                    [] OTHER -> f.w } :
       \E p \in { CASE name = "first" -> first(World, D).p
                    [] name = "last" -> last(World, D).p
                    [] name \in {"next", "moveNext"} -> internalNext(f.w, f.p)
                    [] name \in {"prior", "movePrior"} -> internalPrior(f.w, f.p)
                    [] OTHER -> f.p } :
          /\ Commit(w)
          /\ op' = Call(name, D, IF name = "getCount"
                                 THEN getCount(f.w, D, f.p, isAscending).count ELSE key,
                        NoEntry, p, FALSE, isAscending, NoError, w)
    /\ UNCHANGED <<keySpace, cursor, calls, used, shadow>>

NextRead ==
    \/ Mutate(D)
    \/ \E name \in ReadNames, key \in keySpace : ReadD(name, key, TRUE)
    \/ \E name \in {"range", "getCount"}, key \in keySpace : ReadD(name, key, FALSE)

SpecRead == InitRead /\ [][NextRead]_vars

\* C37: a reading call on derived tree D (first, last, find, get, at,
\* isValid, next, prior, moveNext, movePrior, getCount, and ascending,
\* descending and range run to their end) makes no node owned by D and
\* changes no node, leaves D's root and the versions of D and B as they
\* are, and leaves the entries of D and of B unchanged
C37_ReadsHaveNoEffect ==
    [][ (op'.tree = D /\ op'.name \in ReadNames) =>
        /\ version' = version
        /\ root'[D] = root[D]
        /\ \A n \in 1..Len(heap) : heap'[n] = heap[n]
        /\ \A n \in 1..Len(heap') : n > Len(heap) => heap'[n].tree # D
        /\ \A t \in Trees : getAllEntries(WorldNext, t) = getAllEntries(World, t) ]_vars

\* D, holding private copies over a branch-rooted B, has been iterated
C37_Witness ==
    /\ op.tree = D
    /\ op.name = "descending"
    /\ op.path.on
    /\ base[D] = B
    /\ root[D] # NoNode
    /\ ~heap[root[D]].leaf
    /\ \E n \in Subtree(heap, root[D]) : heap[n].tree = B
    /\ \E n \in Subtree(heap, root[D]) : heap[n].tree = D

====
